---------------------------- MODULE Spec2Model ----------------------------
(***************************************************************************)
(* Plot-geometry resolution and raster clipping of the drone pipeline:     *)
(* CanopyCover.process_message (extractors-canopycover/drone_canopycover)  *)
(* and ClipByShape.process_message (extractors-clipbyshape/                *)
(* terra_clipbyshape), with the find_needed_files scan both start from;    *)
(* PipelineExtractor.get_datestamp (pipelineutils/extractors) under        *)
(* SpecDates; prepare_space and start_extractor (pipelineutils/            *)
(* pipelineutils) against a Clowder instance under SpecClowder;            *)
(* find_needed_files on its own under SpecFind; the OpenDroneMap           *)
(* process_message (extractors-opendronemap) under SpecOdm; the test       *)
(* scripts wait_for_started and wait_for_finish under SpecWait;            *)
(* prepare_experiment read back with                                       *)
(* pipeline_get_season_experiment_timestamp under SpecRoundTrip.           *)
(*                                                                         *)
(* Python strings are sequences of one-character strings, so that find,    *)
(* endswith, lower, str and "+" are computed and not assumed.  Python      *)
(* values of more than one type (None, str, list, int) are tagged records. *)
(***************************************************************************)
EXTENDS Integers, Sequences, FiniteSets, TLC

(***************************************************************************)
(* Bounds of the model.                                                    *)
(***************************************************************************)
\* the longest geometry layer (number of shapefile features) tried
MaxFeatures == 3
\* the longest file list handed to find_needed_files on its own
MaxFiles == 3
\* the polls of the log tried for wait_for_finish, whose own limit is 5000
MaxFinishPolls == 12

(***************************************************************************)
(* String literals used by the code and by the inputs.                     *)
(***************************************************************************)
s_plot == <<"p","l","o","t">>
s_name == <<"n","a","m","e">>
s_id == <<"i","d">>
s_plot_ == <<"p","l","o","t","_">>
s_None == <<"N","o","n","e">>
s_observationUnitName ==
    <<"o","b","s","e","r","v","a","t","i","o","n","U","n","i","t","N","a","m","e">>
s_plot_name == <<"p","l","o","t","_","n","a","m","e">>
s_plot_area == <<"p","l","o","t","_","a","r","e","a">>
s_range == <<"r","a","n","g","e">>
s_column == <<"c","o","l","u","m","n">>
s_Plot_ID == <<"P","l","o","t","_","I","D">>
s_plot_id == <<"p","l","o","t","_","i","d">>
s_P1 == <<"P","1">>
s_P2 == <<"P","2">>
s_P3 == <<"P","3">>
s_empty == << >>
s_dot_shp == <<".","s","h","p">>
s_dot_dbf == <<".","d","b","f">>

\* the file names of the datasets tried
f_shp == <<"f",".","s","h","p">>
f_dbf == <<"f",".","d","b","f">>
f_prj == <<"f",".","p","r","j">>
g_shp == <<"g",".","s","h","p">>
g_dbf == <<"g",".","d","b","f">>
a_tif == <<"a",".","t","i","f">>
b_tif == <<"b",".","t","i","f">>
n_tif == <<"n",".","t","i","f">>
t_tif == <<"t",".","t","i","f">>

(***************************************************************************)
(* Python str methods.                                                     *)
(***************************************************************************)
\* str.endswith(suffix)
EndsWith(s, suffix) ==
    /\ Len(suffix) <= Len(s)
    /\ SubSeq(s, Len(s) - Len(suffix) + 1, Len(s)) = suffix

\* str.find(sub): the lowest 0-based index of sub in s, -1 when absent
Find(s, sub) ==
    LET hits == {i \in 0..(Len(s) - Len(sub)) : SubSeq(s, i + 1, i + Len(sub)) = sub}
    IN IF hits = {} THEN -1 ELSE CHOOSE i \in hits : \A j \in hits : i <= j

\* one character of str.lower(), over the upper-case letters the inputs use
LowerChar(c) ==
    CASE c = "U" -> "u"
      [] c = "N" -> "n"
      [] c = "P" -> "p"
      [] c = "I" -> "i"
      [] c = "D" -> "d"
      [] OTHER -> c

\* str.lower()
Lower(s) == [i \in 1..Len(s) |-> LowerChar(s[i])]

\* one decimal digit as a character
DigitChar(d) ==
    CASE d = 0 -> "0" [] d = 1 -> "1" [] d = 2 -> "2" [] d = 3 -> "3" [] d = 4 -> "4"
      [] d = 5 -> "5" [] d = 6 -> "6" [] d = 7 -> "7" [] d = 8 -> "8" [] d = 9 -> "9"

RECURSIVE IntToStr(_)
\* str(n) of a non-negative int
IntToStr(n) == IF n < 10 THEN <<DigitChar(n)>> ELSE IntToStr(n \div 10) \o <<DigitChar(n % 10)>>

(***************************************************************************)
(* Tagged Python values.                                                   *)
(***************************************************************************)
PyNone == [t |-> "none", v |-> << >>]
PyStr(s) == [t |-> "str", v |-> s]
PyList(l) == [t |-> "list", v |-> l]
PyInt(n) == [t |-> "int", v |-> <<n>>]

\* str(value) as Python 2 computes it for the values a DBF row holds
StrOf(val) ==
    CASE val.t = "none" -> s_None
      [] val.t = "int" -> IntToStr(val.v[1])
      [] OTHER -> val.v

\* iter(list(shape_table)) with v[1] rows already consumed
PyIter(n) == [t |-> "iter", v |-> <<n>>]

\* bool(value): None, '' and [] are false, an iterator is true
Truthy(val) ==
    CASE val.t = "none" -> FALSE
      [] val.t = "int" -> val.v[1] # 0
      [] val.t = "iter" -> TRUE
      [] OTHER -> Len(val.v) > 0

(***************************************************************************)
(* os.path functions.                                                      *)
(***************************************************************************)
\* str.rfind(c) + 1 for a single character c: 0 when absent
LastIndexOf(s, c) ==
    LET hits == {i \in 1..Len(s) : s[i] = c}
    IN IF hits = {} THEN 0 ELSE CHOOSE i \in hits : \A j \in hits : j <= i

\* os.path.basename(p)
Basename(p) == SubSeq(p, LastIndexOf(p, "/") + 1, Len(p))

\* the index of the dot that starts the extension of p, 0 when p has no extension
ExtDot(p) ==
    LET sep == LastIndexOf(p, "/")
        dot == LastIndexOf(p, ".")
    IN IF dot > sep /\ \E i \in (sep + 1)..(dot - 1) : p[i] # "." THEN dot ELSE 0

\* os.path.splitext(p)[0]
SplitextRoot(p) == IF ExtDot(p) = 0 THEN p ELSE SubSeq(p, 1, ExtDot(p) - 1)

\* os.path.splitext(p)[1].lstrip('.')
SplitextExt(p) == IF ExtDot(p) = 0 THEN << >> ELSE SubSeq(p, ExtDot(p) + 1, Len(p))

\* CanopyCover.known_non_image_ext / ClipByShape.known_non_image_ext
known_non_image_ext ==
    { <<"d","b","f">>, <<"j","s","o","n">>, <<"p","r","j">>, <<"s","h","p">>,
      <<"s","h","x">>, <<"t","x","t">> }

(***************************************************************************)
(* Floating point: numpy.nan and the comparisons Python makes with it.     *)
(***************************************************************************)
\* numpy.nan (a value outside every coordinate range used)
nan == -9999

\* a != b on floats: true whenever one side is nan
PyNe(a, b) == a = nan \/ b = nan \/ a # b

\* a < b on floats: false whenever one side is nan
PyLt(a, b) == a # nan /\ b # nan /\ a < b

\* a > b on floats: false whenever one side is nan
PyGt(a, b) == a # nan /\ b # nan /\ a > b

(***************************************************************************)
(* The files of the dataset: what the identify binary and gdal report.     *)
(* A geotransform is <<ulx, xres, uly, yres, RasterXSize, RasterYSize>>;   *)
(* crs is the raster's embedded reference system.                          *)
(***************************************************************************)
NoGeo == << >>

FileInfo(name) ==
    CASE name = a_tif -> [is_image |-> TRUE, geo |-> <<5, 1, 15, -1, 10, 10>>, crs |-> "A"]
      [] name = b_tif -> [is_image |-> TRUE, geo |-> <<5, 1, 15, -1, 10, 10>>, crs |-> "B"]
      [] name = t_tif -> [is_image |-> TRUE, geo |-> <<10, 1, 10, -1, 10, 10>>, crs |-> "A"]
      [] name = n_tif -> [is_image |-> TRUE, geo |-> NoGeo, crs |-> "A"]
      [] OTHER -> [is_image |-> FALSE, geo |-> NoGeo, crs |-> "A"]

\* file_is_image_type(resource, filename)
file_is_image_type(filename) == FileInfo(filename).is_image

\* image_get_geobounds(resource, filename): [ulx, uly, lrx, lry], or four nan when
\* gdal cannot open the file or read its geotransform
image_get_geobounds(filename) ==
    LET g == FileInfo(filename).geo
    IN IF g = NoGeo THEN <<nan, nan, nan, nan>>
       ELSE <<g[1], g[3], g[1] + (g[5] * g[2]), g[3] + (g[6] * g[4])>>

RECURSIVE FoldMin(_, _, _, _)
\* polygon_to_tuples: "if min is None or pt < min: min = pt" over the points
\* idx..Len(ring) of coordinate c (1 = x, 2 = y), acc the minimum so far
FoldMin(ring, c, idx, acc) ==
    IF idx > Len(ring) THEN acc
    ELSE FoldMin(ring, c, idx + 1,
                 IF idx = 1 \/ PyLt(ring[idx][c], acc) THEN ring[idx][c] ELSE acc)

RECURSIVE FoldMax(_, _, _, _)
\* polygon_to_tuples: "if max is None or pt > max: max = pt"
FoldMax(ring, c, idx, acc) ==
    IF idx > Len(ring) THEN acc
    ELSE FoldMax(ring, c, idx + 1,
                 IF idx = 1 \/ PyGt(ring[idx][c], acc) THEN ring[idx][c] ELSE acc)

\* polygon_to_tuples(polygon): (min Y, max Y, min X, max X) of the outer ring
polygon_to_tuples(ring) ==
    <<FoldMin(ring, 2, 1, nan), FoldMax(ring, 2, 1, nan),
      FoldMin(ring, 1, 1, nan), FoldMax(ring, 1, 1, nan)>>

\* BoundsRing with the corners in the order upper left, lower left, lower
\* right, upper right
BoundsRing_other_way(bounds) ==
    << <<bounds[1], bounds[2]>>, <<bounds[1], bounds[4]>>, <<bounds[3], bounds[4]>>,
       <<bounds[3], bounds[2]>>, <<bounds[1], bounds[2]>> >>

\* the closed ring find_needed_files builds from the bounds: upper left, upper
\* right, lower right, lower left, upper left
BoundsRing(bounds) ==
    << <<bounds[1], bounds[2]>>, <<bounds[3], bounds[2]>>, <<bounds[3], bounds[4]>>,
       <<bounds[1], bounds[4]>>, <<bounds[1], bounds[2]>> >>

\* imagefiles[onefile] = {'bounds': poly, 'bounding_tuples': bounds_tuple}
ImageEntry(onefile) ==
    LET ring == BoundsRing(image_get_geobounds(onefile))
    IN [filename |-> onefile, bounds |-> ring, bounding_tuples |-> polygon_to_tuples(ring)]

\* the test that guards the catalog entry: "if bounds[0] != nan"
HasGeoBounds(bounds) == PyNe(bounds[1], nan)

\* dict assignment imagefiles[key] = entry, the dict kept as a sequence of entries
DictPut(d, entry) ==
    IF \E i \in 1..Len(d) : d[i].filename = entry.filename
    THEN [i \in 1..Len(d) |-> IF d[i].filename = entry.filename THEN entry ELSE d[i]]
    ELSE Append(d, entry)

(***************************************************************************)
(* find_needed_files(resource, files, triggering_file) of both extractors. *)
(* triggering_file is a tagged value: None or a str.                       *)
(***************************************************************************)
\* the test that lets a *.shp entry become the shapefile
ShapefileWanted(ext, acc, onefile, trig) ==
    IF ext = "canopycover" THEN acc.shapefile = PyNone
    ELSE trig = PyNone \/ (trig.t = "str" /\ EndsWith(trig.v, onefile))

\* the test that lets a file be probed for geographic bounds
ImageWanted(ext, onefile, trig) ==
    IF ext = "canopycover"
    THEN \/ trig.t = "str" /\ EndsWith(trig.v, Basename(onefile))
         \/ trig = PyNone /\ file_is_image_type(onefile)
    ELSE file_is_image_type(onefile)

\* one iteration of "for onefile in files"
FindStep(ext, acc, onefile, trig) ==
    IF EndsWith(onefile, s_dot_shp)
    THEN IF ShapefileWanted(ext, acc, onefile, trig)
         THEN [acc EXCEPT !.shapefile = PyStr(onefile),
                          !.dbffile =
                              IF /\ Truthy(acc.dbffile)
                                 /\ ~EndsWith(onefile, SplitextRoot(Basename(acc.dbffile.v)) \o s_dot_shp)
                              THEN PyNone ELSE acc.dbffile]
         ELSE acc
    ELSE IF EndsWith(onefile, s_dot_dbf)
    THEN LET filename_test == SplitextRoot(Basename(onefile)) \o s_dot_shp
         IN IF \/ acc.shapefile.t = "str" /\ EndsWith(acc.shapefile.v, filename_test)
               \/ trig = PyNone
               \/ trig.t = "str" /\ EndsWith(trig.v, filename_test)
            THEN [acc EXCEPT !.dbffile = PyStr(onefile)]
            ELSE acc
    ELSE IF /\ SplitextExt(Basename(onefile)) \notin known_non_image_ext
            /\ ImageWanted(ext, onefile, trig)
            /\ HasGeoBounds(image_get_geobounds(onefile))
    THEN [acc EXCEPT !.imagefiles = DictPut(acc.imagefiles, ImageEntry(onefile))]
    ELSE acc

RECURSIVE FindLoop(_, _, _, _, _)
FindLoop(ext, acc, files, idx, trig) ==
    IF idx > Len(files) THEN acc
    ELSE FindLoop(ext, FindStep(ext, acc, files[idx], trig), files, idx + 1, trig)

\* find_needed_files: (shapefile, dbffile, imagefiles)
find_needed_files(ext, files, trig) ==
    FindLoop(ext, [shapefile |-> PyNone, dbffile |-> PyNone, imagefiles |-> << >>],
             files, 1, trig)

(***************************************************************************)
(* The attribute table: DBF(dbffile, lowernames=True).                     *)
(* A table is [fields: the field names as stored in the file, rows: the    *)
(* records, each a sequence of values aligned with fields].                *)
(***************************************************************************)
\* shape_table.field_names: lowernames=True lower-cases every field name
field_names(table) == [i \in 1..Len(table.fields) |-> Lower(table.fields[i])]

\* "key in column_names" for a str key; a list is never equal to a str
InColumns(key, column_names) ==
    key.t = "str" /\ \E i \in 1..Len(column_names) : column_names[i] = key.v

\* the test of the second branch of the lookup loop; str.find() is used as a
\* truth value for 'id', so it holds unless the name starts with 'id'
PlotLikeName(one_name) ==
    /\ Find(one_name, s_plot) >= 0
    /\ (Find(one_name, s_name) >= 0 \/ Find(one_name, s_id) # 0)

RECURSIVE LookupLoop(_, _)
\* "for one_name in column_names": the first column that passes any of the
\* three tests is taken (break), None when the loop runs out
LookupLoop(column_names, idx) ==
    IF idx > Len(column_names) THEN PyNone
    ELSE LET one_name == column_names[idx]
         IN IF one_name = s_observationUnitName THEN PyStr(one_name)
            ELSE IF PlotLikeName(one_name) THEN PyStr(one_name)
            ELSE IF one_name = s_id THEN PyStr(one_name)
            ELSE LookupLoop(column_names, idx + 1)

\* plot_name_idx after the "if dbffile:" block; the ValueError objects built
\* there are never raised, so a hint that is no column is kept as it is
ResolvePlotColumn(hint, column_names) ==
    IF hint.t = "none" THEN LookupLoop(column_names, 1) ELSE hint

\* row[plot_name_idx] on the OrderedDict of a record: the value, or "KeyError"
\* for a str that is no column, or "TypeError" for a list (unhashable)
RowLookup(column_names, row, key) ==
    IF key.t = "list" THEN [exc |-> "TypeError", val |-> PyNone]
    ELSE IF ~InColumns(key, column_names) THEN [exc |-> "KeyError", val |-> PyNone]
    ELSE LET i == CHOOSE j \in 1..Len(column_names) :
                      /\ column_names[j] = key.v
                      /\ \A k \in (j + 1)..Len(column_names) : column_names[k] # key.v
         IN [exc |-> "", val |-> row[i]]

\* SynthName with a 0-based feature index
SynthName_zero_based(n) == s_plot_ \o IntToStr(n - 1)

\* "plot_" + str(alternate_plot_id)
SynthName(n) == s_plot_ \o IntToStr(n)

\* RowsAfterNaming with next(shape_rows) skipped for every second feature
RowsAfterNaming_skipping(rows, idx, table) ==
    IF Truthy(rows) /\ Truthy(idx) /\ rows.v[1] < Len(table.rows) /\ rows.v[1] # 1
    THEN PyIter(rows.v[1] + 1) ELSE rows

\* the rows consumed after the naming block of one feature
RowsAfterNaming(rows, idx, table) ==
    IF Truthy(rows) /\ Truthy(idx) /\ rows.v[1] < Len(table.rows)
    THEN PyIter(rows.v[1] + 1) ELSE rows

\* PlotNameFor without "if not plot_name": an empty value is kept as the name
PlotNameFor_keeping_empty(rows, idx, table, n) ==
    IF Truthy(rows) /\ Truthy(idx)
    THEN IF rows.v[1] >= Len(table.rows)
         THEN [exc |-> "", name |-> SynthName(n)]
         ELSE LET got == RowLookup(field_names(table), table.rows[rows.v[1] + 1], idx)
              IN IF got.exc # "" THEN [exc |-> got.exc, name |-> s_empty]
                 ELSE [exc |-> "", name |-> StrOf(got.val)]
    ELSE [exc |-> "", name |-> SynthName(n)]

\* the naming block of one feature: [exc, name]; exc is the exception that
\* leaves process_message ("" when none does)
PlotNameFor(rows, idx, table, n) ==
    IF Truthy(rows) /\ Truthy(idx)
    THEN IF rows.v[1] >= Len(table.rows)
         THEN [exc |-> "", name |-> SynthName(n)]
         ELSE LET got == RowLookup(field_names(table), table.rows[rows.v[1] + 1], idx)
              IN IF got.exc # "" THEN [exc |-> got.exc, name |-> s_empty]
                 ELSE IF Len(StrOf(got.val)) > 0
                      THEN [exc |-> "", name |-> StrOf(got.val)]
                      ELSE [exc |-> "", name |-> SynthName(n)]
    ELSE [exc |-> "", name |-> SynthName(n)]

(***************************************************************************)
(* Geometry.  Every polygon tried is an axis-aligned rectangle given as a  *)
(* closed ring of 5 points.                                                *)
(***************************************************************************)
Min2(a, b) == IF a < b THEN a ELSE b
Max2(a, b) == IF a > b THEN a ELSE b

\* a ring has a nan coordinate
HasNan(ring) == \E i \in 1..Len(ring) : ring[i][1] = nan \/ ring[i][2] = nan

\* the result of plot_poly.Intersection(bounds) when OGR returns no geometry
NoGeometry == -1

\* the area of the intersection of two rectangles
OverlapArea(p, q) ==
    LET a == polygon_to_tuples(p)
        b == polygon_to_tuples(q)
        h == Min2(a[2], b[2]) - Max2(a[1], b[1])
        w == Min2(a[4], b[4]) - Max2(a[3], b[3])
    IN IF h > 0 /\ w > 0 THEN h * w ELSE 0

\* plot_poly.Intersection(bounds).GetArea(): the possible results.  For a ring
\* of nan the geometry library either yields an empty geometry (area 0) or no
\* geometry at all (None, on which GetArea raises AttributeError).
IntersectionAreas(plot_poly, bounds) ==
    IF HasNan(bounds) THEN {0, NoGeometry} ELSE {OverlapArea(plot_poly, bounds)}

\* a rectangle (x1, y1)-(x2, y2) as the closed ring of a shapefile polygon
Rect(x1, y1, x2, y2) ==
    << <<x1, y2>>, <<x2, y2>>, <<x2, y1>>, <<x1, y1>>, <<x1, y2>> >>

\* plot_poly.Centroid() of a rectangle, as (x, y); halves are kept by doubling
Centroid2(ring) ==
    LET t == polygon_to_tuples(ring) IN <<t[3] + t[4], t[1] + t[2]>>

(***************************************************************************)
(* clip_raster and calculate_canopycover (terrautils / terraref).          *)
(***************************************************************************)
\* what clip_raster(filename, bounds_tuple) can hand back: None, an exception,
\* or an array of ndim dimensions with size elements of which nonzero are not 0
ClipResults ==
    { [kind |-> "none", ndim |-> 0, size |-> 0, nonzero |-> 0],
      [kind |-> "raise", ndim |-> 0, size |-> 0, nonzero |-> 0],
      [kind |-> "array", ndim |-> 2, size |-> 4, nonzero |-> 1],
      [kind |-> "array", ndim |-> 3, size |-> 12, nonzero |-> 2],
      [kind |-> "array", ndim |-> 3, size |-> 0, nonzero |-> 0] }

\* calculate_canopycover(rollaxis(clip_pix, 0, 3)): count_nonzero / size * 100,
\* in hundredths of a percent; "ZeroDivisionError" on an empty array
calculate_canopycover(pix) ==
    IF pix.size = 0 THEN [exc |-> "ZeroDivisionError", val |-> 0]
    ELSE [exc |-> "", val |-> (pix.nonzero * 10000) \div pix.size]

(***************************************************************************)
(* The inputs of one message.                                              *)
(***************************************************************************)
PlotA == [poly |-> Rect(0, 0, 10, 12), srs |-> "A"]
PlotB == [poly |-> Rect(20, 20, 30, 30), srs |-> "A"]

\* the k-th feature of the field layout the layers are cut from
LayoutFeature(k) == IF k % 2 = 1 THEN PlotA ELSE PlotB

\* the geometry layers tried: the first n features of the layout
Layers == { [k \in 1..n |-> LayoutFeature(k)] : n \in 1..MaxFeatures }

\* the attribute tables tried
Tables ==
    { [fields |-> <<s_observationUnitName>>, rows |-> << <<PyStr(s_P1)>>, <<PyStr(s_P2)>> >>],
      [fields |-> <<s_id, s_plot_name>>,
       rows |-> << <<PyInt(7), PyStr(s_P1)>>, <<PyInt(8), PyStr(s_P2)>>, <<PyInt(9), PyStr(s_P3)>> >>],
      [fields |-> <<s_plot_area, s_id>>, rows |-> << <<PyInt(12), PyInt(1)>>, <<PyInt(15), PyInt(2)>> >>],
      [fields |-> <<s_range, s_column>>, rows |-> << <<PyInt(1), PyInt(2)>>, <<PyInt(1), PyInt(3)>> >>],
      [fields |-> <<s_Plot_ID>>, rows |-> << <<PyStr(s_P1)>>, <<PyStr(s_empty)>>, <<PyNone>> >>],
      [fields |-> <<s_id>>, rows |-> << >>] }

\* the values of extractors.plot_column_name in the experiment file tried
Hints ==
    { PyNone, PyStr(s_id), PyStr(s_plot_id), PyStr(s_name),
      PyList(<<s_range, s_column>>) }

\* the file lists (resource['local_paths']) tried
FileLists ==
    { <<f_shp, f_dbf, a_tif>>, <<f_shp, a_tif>>, <<f_shp, f_dbf, a_tif, t_tif>>,
      <<f_shp, f_dbf, n_tif>>, <<f_shp, f_dbf, b_tif>>, <<f_dbf, a_tif>>,
      <<f_shp, f_dbf, f_prj>>, <<f_shp, f_dbf, t_tif, n_tif>> }

\* resource['triggering_file'] values that check_message lets through
Triggers(ext) ==
    IF ext = "canopycover" THEN {PyNone, PyStr(a_tif)} ELSE {PyNone, PyStr(f_shp)}

(***************************************************************************)
(* PipelineExtractor.get_datestamp (pipelineutils/extractors.py): the two  *)
(* expressions of date_format_regex, re.search on them, str.split and the  *)
(* loops over the parts of the name.                                       *)
(***************************************************************************)
\* the value of a call that raised exception e
Raised(e) == [t |-> "raise", v |-> <<e>>]

\* a text of the configuration file, read as a unicode object
PyUnicode(chars) == [t |-> "unicode", v |-> chars]

\* the characters outside ASCII that the inputs use, named by their code point
NonAscii == {"U+00E4"}

\* config_json['germplasmSpecies']: absent, or the name of the species
Species ==
    { PyNone, PyUnicode(<<"Z","e","a">>), PyUnicode(<<"Z","e","a"," ","m","U+00E4","y","s">>) }

\* str(value) of a str or of a unicode object: the unicode object is encoded
\* as ASCII, which raises on any other character
str(value) ==
    IF value.t = "unicode" /\ \E i \in 1..Len(value.v) : value.v[i] \in NonAscii
    THEN Raised("UnicodeEncodeError")
    ELSE PyStr(value.v)

\* s[i] of a 1-based index, "" beyond the ends of s
CharAt(s, i) == IF i >= 1 /\ i <= Len(s) THEN s[i] ELSE ""

\* \d
IsDigit(c) == c \in {"0", "1", "2", "3", "4", "5", "6", "7", "8", "9"}

\* (/|-){1}
IsDateSep(c) == c \in {"/", "-"}

\* \d{4} at index i
FourDigits(s, i) == \A k \in 0..3 : IsDigit(CharAt(s, i + k))

\* \d{1,2} followed by (/|-) at index i: the number of digits matched (the
\* greedy 2 first, then 1), 0 when there is no match
ShortNumber(s, i) ==
    IF IsDigit(CharAt(s, i)) /\ IsDigit(CharAt(s, i + 1)) /\ IsDateSep(CharAt(s, i + 2)) THEN 2
    ELSE IF IsDigit(CharAt(s, i)) /\ IsDateSep(CharAt(s, i + 1)) THEN 1
    ELSE 0

\* \d{1,2} at the end of an expression, at index i: greedy
LastNumber(s, i) ==
    IF IsDigit(CharAt(s, i)) /\ IsDigit(CharAt(s, i + 1)) THEN 2
    ELSE IF IsDigit(CharAt(s, i)) THEN 1
    ELSE 0

\* date_format_regex: the year-first expression, then the year-last one
date_format_regex == <<"year_first", "year_last">>

\* the length of the match of expression form that starts at index i of s, 0
\* when there is none
MatchLen(form, s, i) ==
    IF form = "year_first"
    THEN IF FourDigits(s, i) /\ IsDateSep(CharAt(s, i + 4))
         THEN LET a == ShortNumber(s, i + 5)
                  b == LastNumber(s, i + 6 + a)
              IN IF a = 0 \/ b = 0 THEN 0 ELSE 6 + a + b
         ELSE 0
    ELSE LET a == ShortNumber(s, i)
             b == ShortNumber(s, i + a + 1)
         IN IF a = 0 \/ b = 0 THEN 0
            ELSE IF FourDigits(s, i + a + b + 2) THEN a + b + 6
            ELSE 0

\* re.search(form, s): group(0) of the leftmost match, or None
re_search(form, s) ==
    LET hits == {i \in 1..Len(s) : MatchLen(form, s, i) > 0}
    IN IF hits = {} THEN PyNone
       ELSE LET i == CHOOSE h \in hits : \A g \in hits : h <= g
            IN PyStr(SubSeq(s, i, i + MatchLen(form, s, i) - 1))

RECURSIVE Split(_, _)
\* str.split(sep)
Split(s, sep) ==
    IF Find(s, sep) < 0 THEN <<s>>
    ELSE <<SubSeq(s, 1, Find(s, sep))>> \o Split(SubSeq(s, Find(s, sep) + Len(sep) + 1, Len(s)), sep)

\* the value get_datestamp builds for a year-last match written as its
\* characters 2, 1 and 0
ReorderedDate(date) == <<date[3]>> \o <<"-">> \o <<date[2]>> \o <<"-">> \o <<date[1]>>

RECURSIVE DatestampLoop(_, _, _)
\* "for part in name.split(" - "): for form in formats:" from part p and
\* expression f on: the value returned, or the RuntimeError after the loops
DatestampLoop(parts, p, f) ==
    IF p > Len(parts) THEN Raised("RuntimeError")
    ELSE IF f > Len(date_format_regex) THEN DatestampLoop(parts, p + 1, 1)
    ELSE LET res == re_search(date_format_regex[f], parts[p])
         IN IF ~Truthy(res) THEN DatestampLoop(parts, p, f + 1)
            ELSE IF Find(SubSeq(res.v, 1, 4), <<"-">>) < 0 THEN PyStr(res.v)
            ELSE IF Len(Split(res.v, <<"-">>)) = 3 THEN PyStr(ReorderedDate(res.v))
            ELSE DatestampLoop(parts, p, f + 1)

\* get_datestamp(name) for a str name
get_datestamp(name) ==
    IF Len(name) > 0 THEN DatestampLoop(Split(name, <<" ", "-", " ">>), 1, 1)
    ELSE Raised("RuntimeError")

\* the names get_datestamp is tried on: a date of every shape the two
\* expressions accept, alone, after a word, in the second part of the name or
\* followed by a part with another date; and names without a date
DateTexts ==
    LET Years == {<<"2", "0", "1", "9">>}
        Months == {<<"5">>, <<"1", "2">>}
        Days == {<<"7">>, <<"3", "0">>}
        Seps == {<<"-">>, <<"/">>}
    IN UNION {{y \o a \o m \o b \o d, d \o a \o m \o b \o y} :
                 <<y, m, d, a, b>> \in Years \X Months \X Days \X Seps \X Seps}
NoDateNames ==
    { << >>, <<"a", "b", "c">>, <<"2", "0", "1", "9">>, <<"1", "2", "-", "5">>,
      <<"a", " ", "-", " ", "b">> }
Names ==
    LET Prefixes == {<< >>, <<"x", " ">>, <<"a", " ", "-", " ">>}
        Suffixes == {<< >>, <<" ", "-", " ", "2", "0", "1", "8", "-", "1", "-", "2">>}
    IN {pre \o date \o suf : <<pre, date, suf>> \in Prefixes \X DateTexts \X Suffixes}
       \cup NoDateNames


(***************************************************************************)
(* pipelineutils/pipelineutils.py: the requests to Clowder.  The reply to  *)
(* a request is a JSON document: a list of dicts, PyList(<<d1, ...>>), or  *)
(* one dict, PyDict(d); a dict is a function from its keys to strings.  A  *)
(* fault names the one request of a call that fails, and how: "HTTPError"  *)
(* (raise_for_status) or "ValueError" (the reply is no JSON document).     *)
(***************************************************************************)
PyDict(d) == [t |-> "dict", v |-> <<d>>]
PyBool(b) == [t |-> "bool", v |-> <<b>>]

\* how the request called request ends under a fault
Outcome(fault, request) == IF fault.at = request THEN fault.kind ELSE "ok"

\* len(result_json)
json_len(result_json) ==
    IF result_json.t = "list" THEN Len(result_json.v) ELSE Cardinality(DOMAIN result_json.v[1])

\* __local__.make_call (and get, post, delete, which only pass their
\* arguments on): outcome is how the request ended, result_json the document
\* of the reply; result_key holds a key of a dict or is None, result_index
\* holds an int or is None
make_call(outcome, result_json, result_key, result_index) ==
    IF outcome # "ok" THEN Raised(outcome)
    ELSE IF json_len(result_json) > 0
    THEN IF result_key.t # "none"
         THEN IF /\ result_index.t # "none"
                 /\ result_json.t = "list"
                 /\ result_index.v[1] < Len(result_json.v)
                 /\ result_key.v \in DOMAIN result_json.v[result_index.v[1] + 1]
              THEN PyStr(result_json.v[result_index.v[1] + 1][result_key.v])
              ELSE IF result_json.t = "list" THEN Raised("TypeError")
              ELSE IF result_key.v \in DOMAIN result_json.v[1]
              THEN PyStr(result_json.v[1][result_key.v])
              ELSE Raised("KeyError")
         ELSE result_json
    ELSE PyNone

\* the reply to GET spaces?title=<space_name>&exact=true: the spaces of that
\* name; the i-th space created has the id str(i)
SpacesTitled(spaces, space_name) ==
    SelectSeq([i \in 1..Len(spaces) |-> [id |-> IntToStr(i), name |-> spaces[i]]],
              LAMBDA d : d.name = space_name)

\* __local__.get_space_id: the value of __local__.get(url), called without a
\* result key
get_space_id(spaces, space_name, fault) ==
    make_call(Outcome(fault, "get_space_id"), PyList(SpacesTitled(spaces, space_name)),
              PyNone, PyNone)

\* __local__.create_space: [spaces, ret], the spaces after the request and the
\* value returned.  A request answered with an HTTP error creates nothing; a
\* reply that is no JSON comes from a request that was carried out.
create_space(spaces, space_name, fault) ==
    LET outcome == Outcome(fault, "create_space")
        made == Append(spaces, space_name)
    IN IF outcome = "HTTPError" THEN [spaces |-> spaces, ret |-> Raised(outcome)]
       ELSE [spaces |-> made,
             ret |-> make_call(outcome, PyDict([id |-> IntToStr(Len(made))]),
                               PyStr("id"), PyInt(0))]

\* __local__.prepare_space: [spaces, ret].  An HTTPError of the lookup returns
\* None; another exception of the lookup is logged and passed over with
\* space_id never assigned, so the next statement that reads space_id raises
\* UnboundLocalError.  An exception of create_space ends in "return None".
prepare_space(spaces, space_name, space_must_exist, fault) ==
    LET space_id == get_space_id(spaces, space_name, fault)
    IN IF space_id.t = "raise"
       THEN [spaces |-> spaces,
             ret |-> IF space_id.v = <<"HTTPError">> THEN PyNone
                     ELSE Raised("UnboundLocalError")]
       ELSE IF /\ space_must_exist.t # "none"
               /\ space_must_exist.v[1] = (space_id.t = "none")
       THEN [spaces |-> spaces, ret |-> PyNone]
       ELSE IF space_id.t = "none"
       THEN LET made == create_space(spaces, space_name, fault)
            IN [spaces |-> made.spaces,
                ret |-> IF made.ret.t = "raise" THEN PyNone ELSE made.ret]
       ELSE [spaces |-> spaces, ret |-> space_id]

\* names on the Clowder instance and in the calls
s_experiment_yaml == <<"e","x","p","e","r","i","m","e","n","t",".","y","a","m","l">>
s_extractor_ == <<"e","x","t","r","a","c","t","o","r","-">>
s_dot_txt == <<".","t","x","t">>
space_1 == <<"s","1">>
space_2 == <<"s","2">>
dataset_1 == <<"d","s","1">>
dataset_2 == <<"d","s","2">>
s_odm == <<"o","d","m">>
s_terra_odm == <<"t","e","r","r","a",".","o","d","m">>
s_canopy == <<"c","a","n","o","p","y">>
s_key == <<"k","e","y","1">>
s_config_path == <<"/","t","m","p","/","o","d","m",".","t","x","t">>

\* __local__.get_api_key: the first key of the user
get_api_key(fault) ==
    make_call(Outcome(fault, "get_api_key"), PyList(<<[key |-> s_key]>>),
              PyStr("key"), PyInt(0))

\* __local__.get_dataset_id: the id of the first dataset of that title; the
\* instance holds the one dataset "ds1"
get_dataset_id(dataset, fault) ==
    make_call(Outcome(fault, "get_dataset_id"),
              PyList(SelectSeq(<<[id |-> <<"7">>, name |-> dataset_1]>>,
                               LAMBDA d : d.name = dataset)),
              PyStr("id"), PyInt(0))

\* __local__.find_extractor_name: the name of the first registered extractor
\* that contains extractor_name; the instance has "terra.odm" registered
find_extractor_name(extractor_name, fault) ==
    LET result_json == make_call(Outcome(fault, "find_extractor_name"),
                                 PyList(<<[name |-> s_terra_odm]>>), PyNone, PyNone)
    IN IF result_json.t = "raise" THEN result_json
       ELSE IF result_json.t = "none" THEN PyNone
       ELSE LET hits == {i \in 1..Len(result_json.v) :
                            /\ "name" \in DOMAIN result_json.v[i]
                            /\ Find(result_json.v[i].name, extractor_name) >= 0}
            IN IF hits = {} THEN PyNone
               ELSE PyStr(result_json.v[CHOOSE i \in hits : \A j \in hits : i <= j].name)

\* the reply to GET datasets/<id>/files: the i-th file of the dataset has the
\* id str(i)
FilesOf(files) == [i \in 1..Len(files) |-> [id |-> IntToStr(i), filename |-> files[i]]]

\* files without its i-th element
Without(files, i) == SubSeq(files, 1, i - 1) \o SubSeq(files, i + 1, Len(files))

\* __local__.checked_remove_file with remove_file_by_id: [files, ret]
checked_remove_file(files, filename, fault) ==
    LET result_json == make_call(Outcome(fault, "list_files"), PyList(FilesOf(files)),
                                 PyNone, PyNone)
        hits == {i \in 1..Len(files) : files[i] = filename}
    IN IF result_json.t = "raise" THEN [files |-> files, ret |-> result_json]
       ELSE IF result_json.t = "none" \/ hits = {} THEN [files |-> files, ret |-> PyBool(FALSE)]
       ELSE LET i == CHOOSE h \in hits : \A j \in hits : h <= j
                result_status == make_call(Outcome(fault, "remove_file"),
                                           PyDict([status |-> <<"o","k">>]),
                                           PyStr("status"), PyNone)
            IN IF Outcome(fault, "remove_file") = "HTTPError"
               THEN [files |-> files, ret |-> result_status]
               ELSE IF result_status.t = "raise"
               THEN [files |-> Without(files, i), ret |-> result_status]
               ELSE [files |-> Without(files, i), ret |-> PyBool(result_status.t # "none")]

\* __local__.upload_as_file and __local__.upload_file (which differ in where
\* the content comes from): [files, ret], the POST to uploadToDataset named
\* request adds the file unless it is answered with an HTTP error
upload_as_file(files, filename, request, fault) ==
    LET outcome == Outcome(fault, request)
        made == Append(files, filename)
    IN IF outcome = "HTTPError" THEN [files |-> files, ret |-> Raised(outcome)]
       ELSE [files |-> made,
             ret |-> make_call(outcome, PyDict([id |-> IntToStr(Len(made))]),
                               PyStr("id"), PyNone)]

\* __local__.upload_file: the file at config_file, which exists, is posted
\* under the name filename
upload_file(files, filename, config_file, fault) ==
    upload_as_file(files, filename, "upload_config", fault)

\* __local__.start_extractor: requests.post, raise_for_status, result.ok
local_start_extractor(fault) ==
    IF Outcome(fault, "start_extractor") = "HTTPError" THEN Raised("HTTPError")
    ELSE PyBool(TRUE)

\* the end of a start_extractor call: the state of the instance and the value
Ended(spaces, files, extractions, ret) ==
    [spaces |-> spaces, files |-> files, extractions |-> extractions, ret |-> ret]

\* the "except Exception" clause of start_extractor: it logs extractor_name,
\* which is assigned only once find_extractor_name has returned, and then
\* returns False
ExceptClause(name_assigned) ==
    IF name_assigned THEN PyBool(FALSE) ELSE Raised("UnboundLocalError")

\* start_extractor from "Create an in-memory experiment.yaml file" on
UploadAndStart(spaces, files, extractions, A, space_id, fault) ==
    IF space_id.t # "str"
    THEN \* YAML_INDENT2 + "space: " + space_id: TypeError when space_id is no str
         Ended(spaces, files, extractions, ExceptClause(TRUE))
    ELSE LET removed == checked_remove_file(files, s_experiment_yaml, fault)
             experiment_file_id ==
                 upload_as_file(removed.files, s_experiment_yaml, "upload_experiment", fault)
             extractor_config_file == s_extractor_ \o A.extractor \o s_dot_txt
             config_file_id ==
                 IF Truthy(A.config_file)
                 THEN upload_file(experiment_file_id.files, extractor_config_file,
                                  A.config_file, fault)
                 ELSE upload_as_file(experiment_file_id.files, extractor_config_file,
                                     "upload_config", fault)
             request_id == local_start_extractor(fault)
         IN IF removed.ret.t = "raise"
            THEN Ended(spaces, removed.files, extractions, ExceptClause(TRUE))
            ELSE IF experiment_file_id.ret.t = "raise"
            THEN Ended(spaces, experiment_file_id.files, extractions, ExceptClause(TRUE))
            ELSE IF ~Truthy(experiment_file_id.ret)
            THEN Ended(spaces, experiment_file_id.files, extractions, PyBool(FALSE))
            ELSE IF config_file_id.ret.t = "raise"
            THEN Ended(spaces, config_file_id.files, extractions, ExceptClause(TRUE))
            ELSE IF ~Truthy(config_file_id.ret)
            THEN Ended(spaces, config_file_id.files, extractions, PyBool(FALSE))
            ELSE IF request_id.t = "raise"
            THEN Ended(spaces, config_file_id.files, extractions + 1, ExceptClause(TRUE))
            ELSE Ended(spaces, config_file_id.files, extractions + 1, PyBool(TRUE))

\* start_extractor(clowder_url, experiment, username, password, dataset,
\* extractor, space_name, api_key, space_must_exist, config_file), A its
\* arguments
start_extractor(spaces, files, extractions, A, fault) ==
    LET our_api_key == IF A.api_key.t = "none" THEN get_api_key(fault) ELSE A.api_key
        dataset_id == get_dataset_id(A.dataset, fault)
        extractor_name == find_extractor_name(A.extractor, fault)
        prepared == prepare_space(spaces, A.space_name, A.space_must_exist, fault)
    IN IF our_api_key.t = "raise" \/ dataset_id.t = "raise"
       THEN Ended(spaces, files, extractions, ExceptClause(FALSE))
       ELSE IF dataset_id.t = "none"
       THEN Ended(spaces, files, extractions, PyBool(FALSE))
       ELSE IF extractor_name.t = "raise"
       THEN Ended(spaces, files, extractions, ExceptClause(FALSE))
       ELSE IF ~Truthy(extractor_name)
       THEN Ended(spaces, files, extractions, PyBool(FALSE))
       ELSE IF prepared.ret.t = "raise"
       THEN Ended(prepared.spaces, files, extractions, ExceptClause(TRUE))
       ELSE IF ~Truthy(prepared.ret)
       THEN Ended(prepared.spaces, files, extractions, PyBool(FALSE))
       ELSE UploadAndStart(prepared.spaces, files, extractions, A, prepared.ret, fault)

\* the calls tried
SpaceNames == {space_1, space_2}
MustExist == {PyNone, PyBool(TRUE), PyBool(FALSE)}
Requests ==
    {"get_api_key", "get_dataset_id", "find_extractor_name", "get_space_id", "create_space",
     "list_files", "remove_file", "upload_experiment", "upload_config", "start_extractor"}
Faults ==
    {[at |-> "none", kind |-> "ok"]}
    \cup [at : Requests, kind : {"HTTPError", "ValueError"}]
StartArguments ==
    [api_key : {PyNone, PyStr(s_key)}, dataset : {dataset_1, dataset_2},
     extractor : {s_odm, s_canopy}, space_name : SpaceNames, space_must_exist : MustExist,
     config_file : {PyNone, PyStr(s_config_path)}]

(***************************************************************************)
(* State of one process_message call.                                      *)
(***************************************************************************)
VARIABLES
    extractor,          \* "canopycover" or "clipbyshape": whose process_message runs
    resource,           \* [local_paths, triggering_file]
    layer,              \* the features of the shapefile's layer, in file order
    dbf_table,          \* the content of the DBF file of the dataset
    config_hint,        \* config_json['extractors']['plot_column_name'], or None
    overwrite,          \* self.overwrite
    config_specie,      \* config_json['germplasmSpecies'] (None if absent)
    pc,                 \* position in process_message
    shapefile,          \* find_needed_files result
    dbffile,            \* find_needed_files result
    imagefiles,         \* the image catalog, in the dict's iteration order
    plot_name_idx,      \* the plot name column
    shape_rows,         \* the row iterator, or None
    feature,            \* index in layer of the current feature
    alternate_plot_id,  \* counter of the features seen
    plot_name,          \* name of the current plot
    todo,               \* images of the inner loop still to visit
    plot_names,         \* the names given so far, one per feature
    geo_file,           \* lines of the geo-stream CSV (canopy cover)
    csv_file,           \* lines of the trait CSV (canopy cover)
    clips,              \* [feature, filename, area, pix] of every clip_raster call, in order
    failed,             \* <<feature index, filename>> of every pair logged as failed
    uploaded_file_ids,  \* clip-by-shape: <<feature index, filename>> uploaded
    error,              \* the exception that left process_message ("" if none)
    sensors_base,       \* self.sensors.base, a path as the sequence of its parts
    sensor_old_base,    \* the local that keeps the base path for the end of the call
    messages,           \* the start_message and end_message calls made, in order
    odm_pc,             \* position in the OpenDroneMap process_message
    out_files,          \* the output files that exist at their final place
    overwrite_ok,       \* self.overwrite_ok
    clowder_valid,      \* what confirm_clowder_info answers
    stitch_yield,       \* whether the stitch hands over the orthomosaic
    cache_folder,       \* the files in self.cache_folder
    files_to_upload,    \* self.files_to_upload
    only_png,           \* the local only_png
    stitched,           \* whether OpenDroneMapStitch.process_message was run
    wait_script,        \* the script run: wait_for_started or wait_for_finish
    wait_pc,            \* position in the script
    wait_i,             \* the loop variable i
    dockerId,           \* the container id found (None until found)
    wait_res,           \* the texts looked for that the last log tail holds
    exit_status,        \* how the script ended ("" while it runs)
    study_args,         \* (study_name, season, timestamp) given to prepare_experiment
    experiment_dict,    \* the dictionary prepare_experiment returned
    read_back,          \* what pipeline_get_season_experiment_timestamp returned
    dataset_name,       \* get_datestamp: the name passed
    datestamp,          \* get_datestamp: None before the call, then its value
    spaces,             \* Clowder: the names of the spaces, in order of creation
    files,              \* Clowder: the names of the files of the dataset "ds1"
    extractions,        \* Clowder: number of extraction requests received
    call,               \* pipelineutils: the call made, [fn, A, fault]; None before it
    returned            \* pipelineutils: the value of the call; None before it

inputs == <<extractor, resource, layer, dbf_table, config_hint, overwrite, config_specie>>
found == <<shapefile, dbffile, imagefiles>>
naming == <<plot_name_idx, shape_rows, feature, alternate_plot_id, plot_name, plot_names>>
outputs == <<geo_file, csv_file, clips, failed, uploaded_file_ids>>
frame == <<sensors_base, sensor_old_base, messages>>
pipeline == <<inputs, found, naming, outputs, pc, todo, error, frame>>
dates == <<dataset_name, datestamp>>
clowder == <<spaces, files, extractions, call, returned>>
odm == <<odm_pc, out_files, overwrite_ok, clowder_valid, stitch_yield, cache_folder,
         files_to_upload, only_png, stitched>>
waiting == <<wait_script, wait_pc, wait_i, dockerId, wait_res, exit_status>>
roundtrip == <<study_args, experiment_dict, read_back>>
tools == <<odm, waiting, roundtrip>>
utilities == <<dates, clowder, tools>>
vars == <<pipeline, utilities>>

\* the header lines written right after the files are opened
TraitFields ==
    <<"local_datetime", "canopy_cover", "access_level", "species", "site",
      "citation_author", "citation_year", "citation_title", "method">>
\* GeoFields with lon written before lat
GeoFields_lon_first == <<"site", "trait", "lon", "lat", "dp_time", "source", "value", "timestamp">>

\* the header line of the geostreams file
GeoFields == <<"site", "trait", "lat", "lon", "dp_time", "source", "value", "timestamp">>

\* no get_datestamp call is under way
DatesIdle ==
    /\ dataset_name = << >>
    /\ datestamp = PyNone

\* no call of pipelineutils is under way and the Clowder instance is empty
ClowderIdle ==
    /\ spaces = << >>
    /\ files = << >>
    /\ extractions = 0
    /\ call = [t |-> "none"]
    /\ returned = PyNone

OdmIdle ==
    /\ odm_pc = "idle"
    /\ out_files = {}
    /\ overwrite_ok = FALSE
    /\ clowder_valid = TRUE
    /\ stitch_yield = FALSE
    /\ cache_folder = {}
    /\ files_to_upload = << >>
    /\ only_png = FALSE
    /\ stitched = FALSE

WaitIdle ==
    /\ wait_script = "wait_for_started"
    /\ wait_pc = "idle"
    /\ wait_i = 0
    /\ dockerId = PyNone
    /\ wait_res = {}
    /\ exit_status = ""

RoundTripIdle ==
    /\ study_args = << >>
    /\ experiment_dict = << >>
    /\ read_back = << >>

ToolsIdle == OdmIdle /\ WaitIdle /\ RoundTripIdle

Init ==
    /\ extractor \in {"canopycover", "clipbyshape"}
    /\ resource \in [local_paths : FileLists, triggering_file : Triggers(extractor)]
    /\ layer \in Layers
    /\ dbf_table \in Tables
    /\ config_hint \in Hints
    /\ config_specie \in Species
    /\ (extractor = "clipbyshape" => config_specie = PyNone)
    /\ overwrite \in BOOLEAN
    /\ (extractor = "canopycover" => overwrite = FALSE)
    /\ pc = "start"
    /\ shapefile = PyNone
    /\ dbffile = PyNone
    /\ imagefiles = << >>
    /\ plot_name_idx = PyNone
    /\ shape_rows = PyNone
    /\ feature = 0
    /\ alternate_plot_id = 0
    /\ plot_name = s_empty
    /\ todo = << >>
    /\ plot_names = << >>
    /\ geo_file = << >>
    /\ csv_file = << >>
    /\ clips = << >>
    /\ failed = {}
    /\ uploaded_file_ids = << >>
    /\ error = ""
    /\ sensors_base = <<"sites">>
    /\ sensor_old_base = << >>
    /\ messages = << >>
    /\ DatesIdle
    /\ ClowderIdle
    /\ ToolsIdle

\* the orders in which a dict of these entries can be iterated
DictOrders(d) ==
    { o \in [1..Len(d) -> 1..Len(d)] : \A i, j \in 1..Len(d) : i # j => o[i] # o[j] }

\* the user names get_username_with_base_path comes to: the cleaned name of
\* the dataset's author, or 'unknown' when no user is found
Usernames == {"unknown", "Jane_Doe"}

\* new_base_path of get_username_with_base_path: os.path.join(base_path, username)
base_path_with(base_path, username) == Append(base_path, username)

\* process_message up to the catalog: find_needed_files, the two early
\* returns, and (canopy cover) the cut of the catalog to one popitem() entry
FindFiles ==
    /\ UNCHANGED utilities
    /\ pc = "start"
    /\ messages' = Append(messages, "start_message")
    /\ sensor_old_base' = sensors_base
    /\ \E username \in Usernames : sensors_base' = base_path_with(sensors_base, username)
    /\ LET r == find_needed_files(extractor, resource.local_paths, resource.triggering_file)
       IN /\ shapefile' = r.shapefile
          /\ dbffile' = r.dbffile
          /\ IF r.shapefile = PyNone \/ Len(r.imagefiles) <= 0
             THEN /\ pc' = "skipped"
                  /\ imagefiles' = r.imagefiles
             ELSE /\ pc' = "load"
                  /\ IF extractor = "canopycover" /\ Len(r.imagefiles) > 1
                     THEN \E k \in 1..Len(r.imagefiles) : imagefiles' = <<r.imagefiles[k]>>
                     ELSE \E o \in DictOrders(r.imagefiles) :
                              imagefiles' = [i \in 1..Len(r.imagefiles) |-> r.imagefiles[o[i]]]
    /\ UNCHANGED <<inputs, naming, outputs, todo, error>>

\* the plot name column and the row iterator, the first feature, and (canopy
\* cover) the two CSV files opened and their header lines written
LoadShapes ==
    /\ UNCHANGED <<utilities, frame>>
    /\ pc = "load"
    /\ IF Truthy(dbffile)
       THEN /\ shape_rows' = PyIter(0)
            /\ plot_name_idx' = ResolvePlotColumn(config_hint, field_names(dbf_table))
       ELSE /\ shape_rows' = PyNone
            /\ plot_name_idx' = config_hint
    /\ IF extractor = "canopycover"
       THEN /\ csv_file' = <<[kind |-> "header", cols |-> TraitFields]>>
            /\ geo_file' = <<[kind |-> "header", cols |-> GeoFields]>>
       ELSE UNCHANGED <<csv_file, geo_file>>
    /\ feature' = 1
    /\ pc' = "feature"
    /\ UNCHANGED <<inputs, found, alternate_plot_id, plot_name, plot_names,
                   clips, failed, uploaded_file_ids, todo, error>>

\* build_dataset_hierarchy_crawl, called per plot by clip-by-shape only and
\* outside any try: it returns a dataset id or lets a request error through
HierarchyResults(ext) == IF ext = "clipbyshape" THEN {"ok", "HTTPError"} ELSE {"ok"}

\* the head of "while feature": the naming block of the next feature and, in
\* clip-by-shape, the creation of the plot's dataset
NameFeature ==
    /\ UNCHANGED <<utilities, frame>>
    /\ pc = "feature"
    /\ feature <= Len(layer)
    /\ alternate_plot_id' = alternate_plot_id + 1
    /\ shape_rows' = RowsAfterNaming(shape_rows, plot_name_idx, dbf_table)
    /\ LET got == PlotNameFor(shape_rows, plot_name_idx, dbf_table, alternate_plot_id + 1)
       IN IF got.exc # ""
          THEN /\ pc' = "aborted"
               /\ error' = got.exc
               /\ UNCHANGED <<plot_name, plot_names, todo>>
          ELSE /\ plot_name' = got.name
               /\ plot_names' = Append(plot_names, got.name)
               /\ \E crawl \in HierarchyResults(extractor) :
                      IF crawl = "ok"
                      THEN pc' = "images" /\ todo' = imagefiles /\ UNCHANGED error
                      ELSE pc' = "aborted" /\ error' = crawl /\ UNCHANGED todo
    /\ UNCHANGED <<inputs, found, plot_name_idx, feature, outputs>>

\* the current feature's polygon
plot_poly == layer[feature].poly

\* the two lines canopy cover writes for a scored pair; image_ids is an empty
\* dict, so the source field is the host's "/files/" path with the id ''
GeoRow(name, poly, image_clowder_id, cc_val) ==
    [kind |-> "data",
     cols |-> <<name, "Canopy Cover", Centroid2(poly)[1], Centroid2(poly)[2],
                "full_timestamp", <<"host/files/">> \o image_clowder_id, cc_val,
                "datestamp">>]
\* traits['species']: 'Unknown' of get_traits_table unless the configuration
\* names the species
TraitSpecies(specie) == IF specie # PyNone THEN specie ELSE PyStr(<<"Unknown">>)

TraitRow(name, cc_val, species) ==
    [kind |-> "data",
     cols |-> <<"full_timestamp", cc_val, "2", species, name,
                "citation_author", "citation_year", "citation_title", "method">>]

\* csv_file.write / geo_file.write of one line on a file opened with 'w': the
\* line goes to the end of the file
WriteLine(file, line) == Append(file, line)

\* NoOverlap with the test written "< 0.0"
NoOverlap_negative_only(area) == area < 0

\* "if intersection.GetArea() == 0.0": the pair is skipped
NoOverlap(area) == area = 0

\* the entry kept for one clip_raster call
ClipCall(f, filename, area, clip_pix) ==
    [feature |-> f, filename |-> filename, area |-> area, pix |-> clip_pix]

\* ClipAndScore without the test of the number of dimensions
ClipAndScore_no_shape_test(clip_pix) ==
    IF clip_pix.kind # "array" THEN [ok |-> FALSE, val |-> 0]
    ELSE IF calculate_canopycover(clip_pix).exc # "" THEN [ok |-> FALSE, val |-> 0]
    ELSE [ok |-> TRUE, val |-> calculate_canopycover(clip_pix).val]

\* canopy cover's try block up to cc_val: ok is false when the block is left by
\* "continue" (clip_pix is None, fewer than 3 dimensions) or by an exception
\* (raised by clip_raster or by calculate_canopycover)
ClipAndScore(clip_pix) ==
    IF clip_pix.kind # "array" THEN [ok |-> FALSE, val |-> 0]
    ELSE IF clip_pix.ndim < 3 THEN [ok |-> FALSE, val |-> 0]
    ELSE IF calculate_canopycover(clip_pix).exc # "" THEN [ok |-> FALSE, val |-> 0]
    ELSE [ok |-> TRUE, val |-> calculate_canopycover(clip_pix).val]

\* canopy cover, one pass of "for filename in imagefiles": the overlap test,
\* then the try block that clips, scores and writes the two rows
CanopyImage ==
    /\ UNCHANGED <<utilities, frame>>
    /\ pc = "images"
    /\ extractor = "canopycover"
    /\ todo # << >>
    /\ LET img == Head(todo)
       IN \E area \in IntersectionAreas(plot_poly, img.bounds) :
            IF area = NoGeometry
            THEN /\ pc' = "aborted"
                 /\ error' = "AttributeError"
                 /\ UNCHANGED <<todo, outputs>>
            ELSE IF NoOverlap(area)
            THEN /\ todo' = Tail(todo)
                 /\ UNCHANGED <<pc, error, outputs>>
            ELSE \E clip_pix \in ClipResults :
                   /\ todo' = Tail(todo)
                   /\ clips' = Append(clips, ClipCall(feature, img.filename, area, clip_pix))
                   /\ UNCHANGED <<pc, error, uploaded_file_ids>>
                   /\ IF ~ClipAndScore(clip_pix).ok
                      THEN /\ failed' = failed \cup {<<feature, img.filename>>}
                           /\ UNCHANGED <<geo_file, csv_file>>
                      ELSE LET cc_val == ClipAndScore(clip_pix).val
                               species == str(TraitSpecies(config_specie))
                           IN /\ geo_file' = WriteLine(geo_file,
                                     GeoRow(plot_name, plot_poly, s_empty, cc_val))
                              /\ IF species.t = "raise"
                                 THEN /\ failed' = failed \cup {<<feature, img.filename>>}
                                      /\ UNCHANGED csv_file
                                 ELSE /\ csv_file' = WriteLine(csv_file,
                                             TraitRow(plot_name, cc_val, species.v))
                                      /\ UNCHANGED failed
    /\ UNCHANGED <<inputs, found, naming>>

\* clip-by-shape, one pass of "for filename in imagefiles": the overlap test,
\* the existing-output test, clip_raster to the output file and the upload;
\* nothing in this loop is inside a try
ClipImage ==
    /\ UNCHANGED <<utilities, frame>>
    /\ pc = "images"
    /\ extractor = "clipbyshape"
    /\ todo # << >>
    /\ UNCHANGED <<inputs, found, naming, geo_file, csv_file>>
    /\ LET img == Head(todo)
       IN \E area \in IntersectionAreas(plot_poly, img.bounds) :
            IF area = NoGeometry
            THEN /\ pc' = "aborted"
                 /\ error' = "AttributeError"
                 /\ UNCHANGED <<todo, clips, failed, uploaded_file_ids>>
            ELSE IF NoOverlap(area)
            THEN /\ todo' = Tail(todo)
                 /\ UNCHANGED <<pc, error, clips, failed, uploaded_file_ids>>
            ELSE \E out_exists \in BOOLEAN :
                   IF out_exists /\ ~overwrite
                   THEN /\ todo' = Tail(todo)
                        /\ UNCHANGED <<pc, error, clips, failed, uploaded_file_ids>>
                   ELSE \E clip_pix \in ClipResults, found_in_dest \in BOOLEAN,
                           upload \in {"ok", "HTTPError"} :
                          /\ clips' = Append(clips, ClipCall(feature, img.filename, area, clip_pix))
                          /\ IF clip_pix.kind = "raise"
                             THEN /\ pc' = "aborted"
                                  /\ error' = "clip_raster"
                                  /\ UNCHANGED <<todo, failed, uploaded_file_ids>>
                             ELSE IF clip_pix.kind = "none"
                             THEN /\ todo' = Tail(todo)
                                  /\ failed' = failed \cup {<<feature, img.filename>>}
                                  /\ UNCHANGED <<pc, error, uploaded_file_ids>>
                             ELSE IF ~found_in_dest \/ overwrite
                             THEN IF upload = "ok"
                                  THEN /\ todo' = Tail(todo)
                                       /\ uploaded_file_ids' =
                                              Append(uploaded_file_ids, <<feature, img.filename>>)
                                       /\ UNCHANGED <<pc, error, failed>>
                                  ELSE /\ pc' = "aborted"
                                       /\ error' = upload
                                       /\ UNCHANGED <<todo, failed, uploaded_file_ids>>
                             ELSE /\ todo' = Tail(todo)
                                  /\ UNCHANGED <<pc, error, failed, uploaded_file_ids>>

\* "feature = layer.GetNextFeature()" at the end of the while body
NextFeature ==
    /\ UNCHANGED <<utilities, frame>>
    /\ pc = "images"
    /\ todo = << >>
    /\ feature' = feature + 1
    /\ pc' = "feature"
    /\ UNCHANGED <<inputs, found, plot_name_idx, shape_rows, alternate_plot_id,
                   plot_name, plot_names, outputs, todo, error>>

\* after the while loop: the CSV files are closed and uploaded inside a try
\* (canopy cover; get_dataset_id answers from the resource, which check_message
\* made sure carries a dataset id), or the dataset metadata is uploaded outside
\* any try (clip-by-shape); then end_message
Finish ==
    /\ UNCHANGED utilities
    /\ pc = "feature"
    /\ feature > Len(layer)
    /\ \E upload \in HierarchyResults(extractor) :
          IF upload = "ok"
          THEN /\ pc' = "done"
               /\ sensors_base' = sensor_old_base
               /\ messages' = Append(messages, "end_message")
               /\ UNCHANGED error
          ELSE /\ pc' = "aborted"
               /\ error' = upload
               /\ UNCHANGED <<sensors_base, messages>>
    /\ UNCHANGED <<inputs, found, naming, outputs, todo, sensor_old_base>>

Next ==
    \/ FindFiles
    \/ LoadShapes
    \/ NameFeature
    \/ CanopyImage
    \/ ClipImage
    \/ NextFeature
    \/ Finish

Spec == Init /\ [][Next]_vars

(***************************************************************************)
(* get_datestamp called on one name.                                       *)
(***************************************************************************)
\* no process_message call is under way
PipelineIdle ==
    /\ extractor = "canopycover"
    /\ resource = [local_paths |-> << >>, triggering_file |-> PyNone]
    /\ layer = << >>
    /\ dbf_table = [fields |-> << >>, rows |-> << >>]
    /\ config_hint = PyNone
    /\ config_specie = PyNone
    /\ overwrite = FALSE
    /\ pc = "idle"
    /\ shapefile = PyNone
    /\ dbffile = PyNone
    /\ imagefiles = << >>
    /\ plot_name_idx = PyNone
    /\ shape_rows = PyNone
    /\ feature = 0
    /\ alternate_plot_id = 0
    /\ plot_name = s_empty
    /\ todo = << >>
    /\ plot_names = << >>
    /\ geo_file = << >>
    /\ csv_file = << >>
    /\ clips = << >>
    /\ failed = {}
    /\ uploaded_file_ids = << >>
    /\ error = ""
    /\ sensors_base = <<"sites">>
    /\ sensor_old_base = << >>
    /\ messages = << >>

InitDates ==
    /\ PipelineIdle
    /\ dataset_name \in Names
    /\ datestamp = PyNone
    /\ ClowderIdle
    /\ ToolsIdle

\* datestamp = self.get_datestamp(dataset_name)
GetDatestamp ==
    /\ datestamp.t = "none"
    /\ datestamp' = get_datestamp(dataset_name)
    /\ UNCHANGED <<pipeline, dataset_name, clowder, tools>>

NextDates == GetDatestamp

SpecDates == InitDates /\ [][NextDates]_vars

(***************************************************************************)
(* One call of pipelineutils against a Clowder instance.                   *)
(***************************************************************************)
InitClowder ==
    /\ PipelineIdle
    /\ DatesIdle
    /\ ToolsIdle
    /\ spaces \in {<< >>, <<space_1>>, <<space_2, space_1>>}
    /\ files \in {<< >>, <<s_experiment_yaml>>}
    /\ extractions = 0
    /\ call = [t |-> "none"]
    /\ returned = PyNone

\* space_id = __local__.prepare_space(clowder_api_url, api_key, space_name,
\* space_must_exist), as test_prepare_space_1 .. 6 call it
PrepareSpace ==
    /\ call.t = "none"
    /\ \E space_name \in SpaceNames, space_must_exist \in MustExist, fault \in Faults :
          LET r == prepare_space(spaces, space_name, space_must_exist, fault)
          IN /\ call' = [t |-> "call", fn |-> "prepare_space", fault |-> fault,
                         A |-> [space_name |-> space_name,
                                space_must_exist |-> space_must_exist]]
             /\ spaces' = r.spaces
             /\ returned' = r.ret
    /\ UNCHANGED <<pipeline, dates, files, extractions, tools>>

\* start_extractor(...) called once
StartExtractor ==
    /\ call.t = "none"
    /\ \E A \in StartArguments, fault \in Faults :
          LET r == start_extractor(spaces, files, extractions, A, fault)
          IN /\ call' = [t |-> "call", fn |-> "start_extractor", fault |-> fault, A |-> A]
             /\ spaces' = r.spaces
             /\ files' = r.files
             /\ extractions' = r.extractions
             /\ returned' = r.ret
    /\ UNCHANGED <<pipeline, dates, tools>>

NextClowder ==
    \/ PrepareSpace
    \/ StartExtractor

SpecClowder == InitClowder /\ [][NextClowder]_vars

(***************************************************************************)
(* find_needed_files on its own, over every short list of the files of a   *)
(* dataset with two shapefiles, their DBF files and an image.              *)
(***************************************************************************)
DatasetFiles == {f_shp, g_shp, f_dbf, g_dbf, a_tif}

\* the file lists: every order of every choice of up to MaxFiles files
FindLists ==
    UNION { { l \in [1..n -> DatasetFiles] : \A i, j \in 1..n : i # j => l[i] # l[j] }
            : n \in 1..MaxFiles }

InitFind ==
    /\ extractor \in {"canopycover", "clipbyshape"}
    /\ resource \in [local_paths : FindLists, triggering_file : Triggers(extractor)]
    /\ layer = << >>
    /\ dbf_table = [fields |-> << >>, rows |-> << >>]
    /\ config_hint = PyNone
    /\ config_specie = PyNone
    /\ overwrite = FALSE
    /\ pc = "start"
    /\ shapefile = PyNone
    /\ dbffile = PyNone
    /\ imagefiles = << >>
    /\ plot_name_idx = PyNone
    /\ shape_rows = PyNone
    /\ feature = 0
    /\ alternate_plot_id = 0
    /\ plot_name = s_empty
    /\ todo = << >>
    /\ plot_names = << >>
    /\ geo_file = << >>
    /\ csv_file = << >>
    /\ clips = << >>
    /\ failed = {}
    /\ uploaded_file_ids = << >>
    /\ error = ""
    /\ sensors_base = <<"sites">>
    /\ sensor_old_base = << >>
    /\ messages = << >>
    /\ DatesIdle
    /\ ClowderIdle
    /\ ToolsIdle

\* the call self.find_needed_files(resource, resource['local_paths'],
\* resource['triggering_file']) and its three results
FindNeededFiles ==
    /\ pc = "start"
    /\ LET r == find_needed_files(extractor, resource.local_paths, resource.triggering_file)
       IN /\ shapefile' = r.shapefile
          /\ dbffile' = r.dbffile
          /\ imagefiles' = r.imagefiles
    /\ pc' = "found"
    /\ UNCHANGED <<inputs, naming, outputs, todo, error, frame, utilities>>

NextFind == FindNeededFiles

SpecFind == InitFind /\ [][NextFind]_vars

(***************************************************************************)
(* ODMFullFieldStitcher.process_message: what is stitched, converted and   *)
(* queued for upload, given the outputs that already exist.                *)
(***************************************************************************)
out_tif_full == "fullfield.tif"
out_tif_thumb == "fullfield_thumb.tif"
out_tif_medium == "fullfield_10pct.tif"
out_png == "fullfield_10pct.png"
\* the orthomosaic as OpenDroneMap names it
odm_orthophoto == "odm_orthophoto.tif"

OdmOutputs == {out_tif_full, out_tif_thumb, out_tif_medium, out_png}

\* an entry of self.files_to_upload
UploadEntry(source_name, dest_name) == [source_name |-> source_name, dest_name |-> dest_name]

InitOdm ==
    /\ PipelineIdle
    /\ DatesIdle
    /\ ClowderIdle
    /\ WaitIdle
    /\ RoundTripIdle
    /\ odm_pc = "start"
    /\ out_files \in SUBSET OdmOutputs
    /\ overwrite_ok \in BOOLEAN
    /\ clowder_valid \in BOOLEAN
    /\ stitch_yield \in BOOLEAN
    /\ cache_folder = {}
    /\ files_to_upload = << >>
    /\ only_png = FALSE
    /\ stitched = FALSE

\* from the start of process_message to the check of the files on disk
OdmCheckOutputs ==
    /\ odm_pc = "start"
    /\ files_to_upload' = << >>
    /\ cache_folder' = {}
    /\ IF ~clowder_valid
       THEN odm_pc' = "returned" /\ UNCHANGED only_png
       ELSE LET thumb_exists == out_tif_thumb \in out_files
                med_exists == out_tif_medium \in out_files
                full_exists == out_tif_full \in out_files
                png_exists == out_png \in out_files
            IN IF thumb_exists /\ med_exists /\ full_exists /\ ~overwrite_ok
               THEN IF png_exists
                    THEN odm_pc' = "returned" /\ UNCHANGED only_png
                    ELSE odm_pc' = "png" /\ only_png' = TRUE
               ELSE odm_pc' = "stitch" /\ UNCHANGED only_png
    /\ UNCHANGED <<out_files, overwrite_ok, clowder_valid, stitch_yield, stitched>>
    /\ UNCHANGED <<pipeline, dates, clowder, waiting, roundtrip>>

\* "if not only_png": the stitch, whose upload_file moves the orthomosaic to
\* the cache folder and queues it, and the two smaller TIFF files made of it
OdmStitch ==
    /\ odm_pc = "stitch"
    /\ stitched' = TRUE
    /\ IF stitch_yield
       THEN /\ files_to_upload' = Append(files_to_upload,
                                         UploadEntry(odm_orthophoto, out_tif_full))
            /\ cache_folder' = cache_folder \cup {odm_orthophoto}
                    \cup (IF out_tif_medium \notin out_files THEN {out_tif_medium} ELSE {})
                    \cup (IF out_tif_thumb \notin out_files THEN {out_tif_thumb} ELSE {})
       ELSE UNCHANGED <<files_to_upload, cache_folder>>
    /\ odm_pc' = "png"
    /\ UNCHANGED <<out_files, overwrite_ok, clowder_valid, stitch_yield, only_png>>
    /\ UNCHANGED <<pipeline, dates, clowder, waiting, roundtrip>>

\* "We're here due to possibly needing the PNG Thumbnail": the PNG is made of
\* the 10% TIFF of the cache folder
OdmPng ==
    /\ odm_pc = "png"
    /\ LET srcname == out_tif_medium
           png_exists == out_png \in out_files
       IN IF (only_png \/ ~png_exists) /\ srcname \in cache_folder
          THEN cache_folder' = cache_folder \cup {out_png}
          ELSE UNCHANGED cache_folder
    /\ odm_pc' = "queue"
    /\ UNCHANGED <<out_files, overwrite_ok, clowder_valid, stitch_yield, files_to_upload,
                   only_png, stitched>>
    /\ UNCHANGED <<pipeline, dates, clowder, waiting, roundtrip>>

\* the entries queued for the files newly made
NewlyCreated ==
    LET queue(file_name) ==
            IF file_name \in cache_folder /\ file_name \notin out_files
            THEN <<UploadEntry(file_name, file_name)>> ELSE << >>
    IN queue(out_tif_thumb) \o queue(out_tif_medium) \o queue(out_png)

\* "If we newly created these files, upload to Clowder" and perform_uploads,
\* which moves every queued file of the cache folder to its place
OdmUpload ==
    /\ odm_pc = "queue"
    /\ files_to_upload' = files_to_upload \o NewlyCreated
    /\ LET moved == { i \in 1..Len(files_to_upload') :
                         files_to_upload'[i].source_name \in cache_folder }
       IN /\ out_files' = out_files \cup { files_to_upload'[i].dest_name : i \in moved }
          /\ cache_folder' = cache_folder \ { files_to_upload'[i].source_name : i \in moved }
    /\ odm_pc' = "done"
    /\ UNCHANGED <<overwrite_ok, clowder_valid, stitch_yield, only_png, stitched>>
    /\ UNCHANGED <<pipeline, dates, clowder, waiting, roundtrip>>

NextOdm == OdmCheckOutputs \/ OdmStitch \/ OdmPng \/ OdmUpload

SpecOdm == InitOdm /\ [][NextOdm]_vars

(***************************************************************************)
(* The test scripts wait_for_started.py and wait_for_finish.py: the search *)
(* for the container id, the polls of its log and the way the script ends. *)
(***************************************************************************)
CONTAINER_ID_LOOP_MAX == 10
CONTAINER_STARTED_LOOP_MAX == 10

s_waiting == "Waiting for messages."
s_done == "StatusMessage.done: Done processing"
s_exit_status == "exit status"
s_traceback == "Traceback"

\* the texts the scripts look for in the tail of the log
LogTexts == {s_waiting, s_done, s_exit_status, s_traceback}

\* the end of range(1, ...) of the loop on the log
LogLoopMax(script) ==
    IF script = "wait_for_started" THEN CONTAINER_STARTED_LOOP_MAX ELSE MaxFinishPolls

InitWait ==
    /\ PipelineIdle
    /\ DatesIdle
    /\ ClowderIdle
    /\ OdmIdle
    /\ RoundTripIdle
    /\ wait_script \in {"wait_for_started", "wait_for_finish"}
    /\ wait_pc = "id"
    /\ wait_i = 0
    /\ dockerId = PyNone
    /\ wait_res = {}
    /\ exit_status = ""

\* one pass of "for i in range(0, CONTAINER_ID_LOOP_MAX)" and, when the loop
\* ends without an id, the RuntimeError after it
FindDockerId ==
    /\ wait_pc = "id"
    /\ wait_i < CONTAINER_ID_LOOP_MAX
    /\ \E listed \in BOOLEAN :
          IF listed
          THEN /\ dockerId' = PyStr(<<"c","0","f","f","e","e">>)
               /\ wait_pc' = "logs"
               /\ wait_i' = 1
               /\ UNCHANGED exit_status
          ELSE /\ wait_i' = wait_i + 1
               /\ UNCHANGED dockerId
               /\ IF wait_i + 1 < CONTAINER_ID_LOOP_MAX
                  THEN UNCHANGED <<wait_pc, exit_status>>
                  ELSE wait_pc' = "exit" /\ exit_status' = "RuntimeError"
    /\ UNCHANGED <<wait_script, wait_res>>
    /\ UNCHANGED <<pipeline, dates, clowder, odm, roundtrip>>

\* one pass of the loop on the log of the container
PollLog ==
    /\ wait_pc = "logs"
    /\ wait_i < LogLoopMax(wait_script)
    /\ \E res \in SUBSET LogTexts :
          /\ wait_res' = res
          /\ IF wait_script = "wait_for_started" /\ s_waiting \in res
             THEN wait_pc' = "exit" /\ exit_status' = "0" /\ UNCHANGED wait_i
             ELSE IF wait_script = "wait_for_finish" /\ s_done \in res
             THEN /\ wait_pc' = "exit"
                  /\ UNCHANGED wait_i
                  /\ \E traceback_in_log \in BOOLEAN :
                        /\ s_traceback \in res => traceback_in_log
                        /\ exit_status' = IF traceback_in_log THEN "RuntimeError" ELSE "0"
             ELSE IF s_exit_status \in res \/ s_traceback \in res
             THEN wait_pc' = "exit" /\ exit_status' = "RuntimeError" /\ UNCHANGED wait_i
             ELSE wait_i' = wait_i + 1 /\ UNCHANGED <<wait_pc, exit_status>>
    /\ UNCHANGED <<wait_script, dockerId>>
    /\ UNCHANGED <<pipeline, dates, clowder, odm, roundtrip>>

\* what follows the loop on the log: wait_for_finish raises "Timed out
\* waiting on container", wait_for_started has no statement left and ends
AfterLoop ==
    /\ wait_pc = "logs"
    /\ wait_i = LogLoopMax(wait_script)
    /\ wait_pc' = "exit"
    /\ exit_status' = IF wait_script = "wait_for_finish" THEN "RuntimeError" ELSE "0"
    /\ UNCHANGED <<wait_script, wait_i, dockerId, wait_res>>
    /\ UNCHANGED <<pipeline, dates, clowder, odm, roundtrip>>

NextWait == FindDockerId \/ PollLog \/ AfterLoop

SpecWait == InitWait /\ [][NextWait]_vars

(***************************************************************************)
(* prepare_experiment and pipeline_get_season_experiment_timestamp.        *)
(***************************************************************************)
\* the dictionary prepare_experiment returns
prepare_experiment(study_name, season, timestamp) ==
    [key \in {"studyName", "season", "observationTimestamp"} |->
        CASE key = "studyName" -> study_name
          [] key = "season" -> season
          [] key = "observationTimestamp" -> timestamp]

\* pipeline_json[key] if the key is in pipeline_json, None otherwise
FieldOrNone(pipeline_json, key) ==
    IF key \in DOMAIN pipeline_json THEN pipeline_json[key] ELSE PyNone

\* (ret_season, ret_experiment, ret_timestamp)
pipeline_get_season_experiment_timestamp(pipeline_json) ==
    <<FieldOrNone(pipeline_json, "season"),
      FieldOrNone(pipeline_json, "studyName"),
      FieldOrNone(pipeline_json, "observationTimeStamp")>>

\* the texts tried as study name, season and timestamp
StudyTexts ==
    { PyStr(<<"S","4">>), PyStr(<<"2","0","1","9">>), PyStr(s_empty),
      PyStr(<<"2","0","1","9","-","0","5","-","0","1","T","1","2",":","0","0">>) }

InitRoundTrip ==
    /\ PipelineIdle
    /\ DatesIdle
    /\ ClowderIdle
    /\ OdmIdle
    /\ WaitIdle
    /\ study_args \in StudyTexts \X StudyTexts \X StudyTexts
    /\ experiment_dict = << >>
    /\ read_back = << >>

\* experiment = prepare_experiment(study, season, timestamp)
PrepareExperiment ==
    /\ study_args # << >>
    /\ DOMAIN experiment_dict = {}
    /\ experiment_dict' = prepare_experiment(study_args[1], study_args[2], study_args[3])
    /\ UNCHANGED <<study_args, read_back>>
    /\ UNCHANGED <<pipeline, dates, clowder, odm, waiting>>

\* pipeline_get_season_experiment_timestamp(experiment)
ReadBack ==
    /\ DOMAIN experiment_dict # {}
    /\ read_back = << >>
    /\ read_back' = pipeline_get_season_experiment_timestamp(experiment_dict)
    /\ UNCHANGED <<study_args, experiment_dict>>
    /\ UNCHANGED <<pipeline, dates, clowder, odm, waiting>>

NextRoundTrip == PrepareExperiment \/ ReadBack

SpecRoundTrip == InitRoundTrip /\ [][NextRoundTrip]_vars

(***************************************************************************)
(* Properties.                                                             *)
(***************************************************************************)
\* the synthesized names, written out
plot_N ==
    << <<"p","l","o","t","_","1">>, <<"p","l","o","t","_","2">>, <<"p","l","o","t","_","3">>,
       <<"p","l","o","t","_","4">>, <<"p","l","o","t","_","5">>, <<"p","l","o","t","_","6">> >>

\* the attribute table is in use: a DBF file was found
HasTable == Truthy(dbffile)

\* the columns of the table as the code sees them
Columns == field_names(dbf_table)

\* the value of column col in the k-th row of the table, as a string
RowValue(k, col) ==
    LET i == CHOOSE j \in 1..Len(Columns) : Columns[j] = col
    IN StrOf(dbf_table.rows[k][i])

\* the plot x raster loop has been entered
InLoop == pc \in {"feature", "images", "done", "aborted"} /\ feature >= 1

\* C1: when no DBF file is found, the k-th feature is named "plot_" + k
\* (1-based, in layer order), in the canopy-cover and in the clip-by-shape loop.
C1_SynthesizedNames ==
    dbffile = PyNone =>
        \A k \in 1..Len(plot_names) : plot_names[k] = plot_N[k]

\* three features were named without a table, in either extractor's loop
C1_Witness ==
    /\ pc = "done"
    /\ dbffile = PyNone
    /\ plot_names = <<plot_N[1], plot_N[2], plot_N[3]>>

\* C2: with a column observationUnitName in the attribute table and no column
\* hint, the k-th feature is named by that column's value in the k-th row.
C2_ObservationUnitName ==
    (/\ HasTable
     /\ config_hint.t = "none"
     /\ \E i \in 1..Len(dbf_table.fields) : dbf_table.fields[i] = s_observationUnitName)
    => \A k \in 1..Len(plot_names) :
          k <= Len(dbf_table.rows) =>
              \E i \in 1..Len(dbf_table.fields) :
                  /\ dbf_table.fields[i] = s_observationUnitName
                  /\ plot_names[k] = StrOf(dbf_table.rows[k][i])

\* s contains sub
Contains(s, sub) == \E i \in 0..(Len(s) - Len(sub)) : SubSeq(s, i + 1, i + Len(sub)) = sub

\* the column the priority rules name: observationUnitName anywhere, else the
\* first column with "plot" and ("name" or "id"), else id anywhere, else None
PriorityColumn(table) ==
    LET cols == field_names(table)
        plotlike == {i \in 1..Len(cols) :
                        /\ Contains(cols[i], s_plot)
                        /\ (Contains(cols[i], s_name) \/ Contains(cols[i], s_id))}
    IN IF \E i \in 1..Len(cols) : table.fields[i] = s_observationUnitName
       THEN PyStr(Lower(s_observationUnitName))
       ELSE IF plotlike # {}
       THEN PyStr(cols[CHOOSE i \in plotlike : \A j \in plotlike : i <= j])
       ELSE IF \E i \in 1..Len(cols) : cols[i] = s_id
       THEN PyStr(s_id)
       ELSE PyNone

\* C3: with no column hint the plot name column is the one the rule priority
\* names over the whole column list, whatever the position of the columns.
C3_RulePriority ==
    (InLoop /\ HasTable /\ config_hint.t = "none")
    => /\ plot_name_idx.t = PriorityColumn(dbf_table).t
       /\ plot_name_idx.v = PriorityColumn(dbf_table).v

\* C4: a column hint that is no column of the table is not used: the column
\* comes from the other rules and no feature's naming ends the run.
C4_MissingHintIgnored ==
    (InLoop /\ HasTable /\ config_hint.t = "str" /\ ~InColumns(config_hint, Columns))
    => /\ ~(plot_name_idx.t = "str" /\ plot_name_idx.v = config_hint.v)
       /\ error # "KeyError"

\* the plot name column names a column of the table
ColumnResolved == HasTable /\ InLoop /\ InColumns(plot_name_idx, Columns)

\* C5: with a resolved column, one row is consumed per feature seen (until the
\* table runs out), the k-th feature is named from the k-th row (its value, or
\* "plot_" + k when the value is empty), every feature after the last row is
\* named "plot_" + k, and running out of rows raises nothing.
C5_RowsInLockstep ==
    ColumnResolved =>
        /\ shape_rows.v[1] = Min2(alternate_plot_id, Len(dbf_table.rows))
        /\ error # "StopIteration"
        /\ \A k \in 1..Len(plot_names) :
              IF k <= Len(dbf_table.rows) /\ Len(RowValue(k, plot_name_idx.v)) > 0
              THEN plot_names[k] = RowValue(k, plot_name_idx.v)
              ELSE plot_names[k] = plot_N[k]

\* a table of 2 rows named 3 features, one clip failed on the way, the run ended
C5_Witness ==
    /\ ColumnResolved
    /\ pc = "done"
    /\ Len(dbf_table.rows) = 2
    /\ plot_names = << <<"1">>, <<"2">>, plot_N[3] >>
    /\ failed # {}

RECURSIVE JoinValues(_, _, _)
\* the values of the columns cols[idx..] of row k joined with "_", missing
\* (None or empty) values skipped
JoinValues(k, cols, idx) ==
    IF idx > Len(cols) THEN s_empty
    ELSE LET rest == JoinValues(k, cols, idx + 1)
             i == CHOOSE j \in 1..Len(Columns) : Columns[j] = cols[idx]
             val == dbf_table.rows[k][i]
         IN IF val.t = "none" \/ Len(StrOf(val)) = 0 THEN rest
            ELSE IF rest = s_empty THEN StrOf(val)
            ELSE StrOf(val) \o <<"_">> \o rest

\* C6: a column hint that is a list of columns names each feature by the
\* values of those columns joined with "_" (synthesized when that is empty).
C6_ListHint ==
    (/\ HasTable
     /\ InLoop
     /\ config_hint.t = "list"
     /\ \A c \in 1..Len(config_hint.v) : \E j \in 1..Len(Columns) : Columns[j] = config_hint.v[c])
    => /\ error # "TypeError"
       /\ \A k \in 1..Len(plot_names) :
             k <= Len(dbf_table.rows) =>
                 plot_names[k] = IF JoinValues(k, config_hint.v, 1) = s_empty THEN plot_N[k]
                                 ELSE JoinValues(k, config_hint.v, 1)

\* C7: a raster whose geotransform cannot be read (nan bounds) has no entry in
\* the catalog find_needed_files returns.
C7_NanExcluded ==
    pc # "start" =>
        \A i \in 1..Len(imagefiles) :
            /\ FileInfo(imagefiles[i].filename).geo # NoGeo
            /\ ~HasNan(imagefiles[i].bounds)

\* a ring of reference system from, expressed in reference system to: a point
\* (x, y) of reference "B" is the point (x + 95, y + 95) of reference "A", so
\* that the extent (5,5)-(15,15) of "B" is (100,100)-(110,110) in "A"
TransformRing(ring, from, to) ==
    IF from = to THEN ring
    ELSE IF from = "B"
    THEN [i \in 1..Len(ring) |-> <<ring[i][1] + 95, ring[i][2] + 95>>]
    ELSE [i \in 1..Len(ring) |-> <<ring[i][1] - 95, ring[i][2] - 95>>]

\* the catalog entry of a file
EntryOf(filename) ==
    imagefiles[CHOOSE i \in 1..Len(imagefiles) : imagefiles[i].filename = filename]

\* the least and the greatest coordinate c of a ring without nan
Lo(ring, c) == CHOOSE a \in {ring[i][c] : i \in 1..Len(ring)} : \A i \in 1..Len(ring) : a <= ring[i][c]
Hi(ring, c) == CHOOSE a \in {ring[i][c] : i \in 1..Len(ring)} : \A i \in 1..Len(ring) : a >= ring[i][c]

\* two rectangles share interior points: their intersection has an area > 0
Overlaps(p, q) ==
    /\ ~HasNan(p) /\ ~HasNan(q)
    /\ Max2(Lo(p, 1), Lo(q, 1)) < Min2(Hi(p, 1), Hi(q, 1))
    /\ Max2(Lo(p, 2), Lo(q, 2)) < Min2(Hi(p, 2), Hi(q, 2))

\* C8: a raster in another reference system than the plot is clipped only if
\* its extent, transformed into the plot's reference system, overlaps the plot.
C8_TransformBeforeIntersect ==
    \A c \in 1..Len(clips) :
        LET plot == layer[clips[c].feature]
            crs == FileInfo(clips[c].filename).crs
        IN crs # plot.srs =>
              Overlaps(plot.poly, TransformRing(EntryOf(clips[c].filename).bounds, crs, plot.srs))

\* the data lines of a CSV file
DataRows(file) == SelectSeq(file, LAMBDA line : line.kind = "data")

\* the pairs (feature, raster) clip_raster was called for
ClippedPairs == {<<clips[c].feature, clips[c].filename>> : c \in 1..Len(clips)}

\* C9: clip_raster is called for a (plot, raster) pair only if the plot and
\* the raster extent overlap with an area > 0; every row and every uploaded
\* file belongs to such a pair.
C9_OnlyOverlappingPairs ==
    /\ \A c \in 1..Len(clips) :
          Overlaps(layer[clips[c].feature].poly, EntryOf(clips[c].filename).bounds)
    /\ Len(DataRows(geo_file)) <= Len(clips)
    /\ Len(DataRows(csv_file)) <= Len(clips)
    /\ \A u \in 1..Len(uploaded_file_ids) : uploaded_file_ids[u] \in ClippedPairs

\* a run ended in which a raster that only touches the plot was passed over
\* and the raster that overlaps it was clipped
C9_Witness ==
    /\ pc = "done"
    /\ Len(imagefiles) = 2
    /\ \E i \in 1..2 : imagefiles[i].filename = t_tif
    /\ ClippedPairs = {<<1, a_tif>>}

\* the clip of a pair that canopy cover must not write a row for
BadClip(pix) == pix.kind # "array" \/ pix.ndim < 3 \/ pix.size = 0

\* C10: in canopy cover a failed clip (None, fewer than 3 dimensions, an
\* exception while clipping or scoring) writes no line to either file and the
\* loop goes on with the next raster of the same plot.
C10_FailureSkipsPair ==
    [][(/\ extractor = "canopycover"
        /\ Len(clips') = Len(clips) + 1
        /\ BadClip(clips'[Len(clips')].pix))
       => /\ geo_file' = geo_file
          /\ csv_file' = csv_file
          /\ pc' = "images"
          /\ todo' = Tail(todo)]_vars

\* canopy cover ended: the clip of plot 1 failed on an array of 2 dimensions,
\* plot 3 was still clipped and has the only row
C10_Witness ==
    /\ extractor = "canopycover"
    /\ pc = "done"
    /\ Len(clips) = 2
    /\ clips[1].feature = 1 /\ clips[1].pix.kind = "array" /\ clips[1].pix.ndim = 2
    /\ clips[2].feature = 3 /\ ~BadClip(clips[2].pix)
    /\ Len(DataRows(geo_file)) = 1
    /\ Len(DataRows(csv_file)) = 1

\* C11: in clip-by-shape an exception while clipping or uploading one (plot,
\* raster) pair is caught in the inner loop: no pass of the raster loop ends
\* process_message, the remaining rasters and plots are still processed.
C11_PairErrorsContained ==
    [][(extractor = "clipbyshape" /\ pc = "images") => pc' # "aborted"]_vars

\* C12: once a shapefile and at least one raster are found, canopy cover's
\* process_message runs the plot x raster loop to its end and reaches
\* end_message: no run is ended by an exception on the way.
C12_RunsToEnd ==
    (extractor = "canopycover" /\ pc \notin {"start", "skipped"}) => pc # "aborted"

\* the clip_raster calls that were scored, in call order
ScoredClips == SelectSeq(clips, LAMBDA c : ~BadClip(c.pix))

\* the position of a file in the catalog of the run
CatalogPos(filename) == CHOOSE i \in 1..Len(imagefiles) : imagefiles[i].filename = filename

\* C13: each canopy-cover file has exactly one data row per clipped and scored
\* (plot, raster) pair and none for another pair, in processing order: plots
\* in shapefile order and, within a plot, rasters in catalog order.
C13_RowPerScoredPair ==
    (extractor = "canopycover" /\ pc \notin {"start", "skipped", "load"}) =>
        /\ Len(DataRows(geo_file)) = Len(ScoredClips)
        /\ Len(DataRows(csv_file)) = Len(ScoredClips)
        /\ \A i \in 1..Len(ScoredClips) :
              /\ DataRows(geo_file)[i].cols[1] = plot_names[ScoredClips[i].feature]
              /\ DataRows(geo_file)[i].cols[7] = DataRows(csv_file)[i].cols[2]
              /\ DataRows(csv_file)[i].cols[5] = plot_names[ScoredClips[i].feature]
        /\ \A i, j \in 1..Len(ScoredClips) :
              i < j =>
                  \/ ScoredClips[i].feature < ScoredClips[j].feature
                  \/ /\ ScoredClips[i].feature = ScoredClips[j].feature
                     /\ CatalogPos(ScoredClips[i].filename) < CatalogPos(ScoredClips[j].filename)

\* C14: with a table, a resolved plot name column and a row for the plot, the
\* plot name is never empty: an empty value is replaced by the synthesized
\* name "plot_" + k.
C14_NameNeverEmpty ==
    ColumnResolved =>
        \A k \in 1..Len(plot_names) :
            k <= Len(dbf_table.rows) =>
                /\ Len(plot_names[k]) > 0
                /\ (Len(RowValue(k, plot_name_idx.v)) = 0 => plot_names[k] = plot_N[k])

\* three plots named from the column plot_id with the values "P1", "" and
\* None: the second name is synthesized
C14_Witness ==
    /\ ColumnResolved
    /\ pc = "done"
    /\ plot_name_idx.v = s_plot_id
    /\ Len(RowValue(2, s_plot_id)) = 0
    /\ plot_names = <<s_P1, plot_N[2], s_None>>

\* the corners of a georeferenced raster, from its geotransform
\* <<ulx, xres, uly, yres, RasterXSize, RasterYSize>>
LeftX(g) == g[1]
RightX(g) == g[1] + (g[5] * g[2])
UpperY(g) == g[3]
LowerY(g) == g[3] + (g[6] * g[4])

C16_EmptyBufferScoresZero ==
    [][(/\ extractor = "canopycover"
        /\ Len(clips') = Len(clips) + 1
        /\ clips'[Len(clips')].pix.kind = "array"
        /\ clips'[Len(clips')].pix.ndim >= 3
        /\ clips'[Len(clips')].pix.size = 0)
       => /\ Len(geo_file') = Len(geo_file) + 1
          /\ geo_file'[Len(geo_file')].cols[7] = 0
          /\ Len(csv_file') = Len(csv_file) + 1
          /\ csv_file'[Len(csv_file')].cols[2] = 0]_vars

\* C17: each canopy-cover CSV file has its header line exactly once, as its
\* first line, before every data row: site,trait,lat,lon,dp_time,source,
\* value,timestamp in the geostreams file and local_datetime,canopy_cover,
\* access_level,species,site,citation_author,citation_year,citation_title,
\* method in the trait file.
C17_HeaderFirstOnce ==
    (extractor = "canopycover" /\ pc \notin {"start", "skipped", "load"}) =>
        /\ Len(geo_file) >= 1
        /\ geo_file[1].kind = "header"
        /\ geo_file[1].cols =
              <<"site", "trait", "lat", "lon", "dp_time", "source", "value", "timestamp">>
        /\ \A i \in 2..Len(geo_file) : geo_file[i].kind = "data"
        /\ Len(csv_file) >= 1
        /\ csv_file[1].kind = "header"
        /\ csv_file[1].cols =
              <<"local_datetime", "canopy_cover", "access_level", "species", "site",
                "citation_author", "citation_year", "citation_title", "method">>
        /\ \A i \in 2..Len(csv_file) : csv_file[i].kind = "data"

\* canopy cover ended with the header and two data rows in each file
C17_Witness ==
    /\ extractor = "canopycover"
    /\ pc = "done"
    /\ Len(geo_file) = 3
    /\ Len(csv_file) = 3
    /\ geo_file[1].kind = "header"
    /\ csv_file[1].kind = "header"

\* the indexes of the separators of a date
SepsOf(date) == {i \in 1..Len(date) : IsDateSep(date[i])}

\* a date with its year first and "-" between its parts: unchanged when
\* it starts with the four digits of the year, re-ordered when it ends with them
YearFirst(date) ==
    LET i1 == CHOOSE i \in SepsOf(date) : \A j \in SepsOf(date) : i <= j
        i2 == CHOOSE i \in SepsOf(date) : \A j \in SepsOf(date) : i >= j
    IN IF i1 = 5 THEN date
       ELSE SubSeq(date, i2 + 1, Len(date)) \o <<"-">> \o SubSeq(date, i1 + 1, i2 - 1)
            \o <<"-">> \o SubSeq(date, 1, i1 - 1)

\* the parts of a name that hold a date of one of the two formats
DatedParts(n) ==
    {p \in 1..Len(Split(n, <<" ", "-", " ">>)) :
        \E form \in {"year_first", "year_last"}, i \in 1..Len(n) :
            MatchLen(form, Split(n, <<" ", "-", " ">>)[p], i) > 0}

\* the first date of a name: of its first part with a date, the leftmost
\* year-first date, else the leftmost year-last date
FirstDate(n) ==
    LET part == Split(n, <<" ", "-", " ">>)[CHOOSE p \in DatedParts(n) : \A q \in DatedParts(n) : p <= q]
    IN IF Truthy(re_search("year_first", part)) THEN re_search("year_first", part).v
       ELSE re_search("year_last", part).v

\* C20: get_datestamp returns the first date of the name with the year first
\* (a date written day-month-year is re-ordered to year-month-day), and it
\* raises RuntimeError exactly when the name holds no date of either format.
C20_Datestamp ==
    datestamp.t # "none" =>
        /\ DatedParts(dataset_name) # {} =>
              datestamp.t = "str" /\ datestamp.v = YearFirst(FirstDate(dataset_name))
        /\ DatedParts(dataset_name) = {} =>
              datestamp.t = "raise" /\ datestamp.v = <<"RuntimeError">>

\* space_name is the name of a space of the instance
SpaceExists(all_spaces, space_name) ==
    \E i \in 1..Len(all_spaces) : all_spaces[i] = space_name

\* C18: prepare_space returns the ID of the space when space_must_exist is
\* None (the space is created if absent), when it is True and the space
\* exists, and when it is False and the space does not exist (it is created);
\* it returns None and creates nothing when it is True and the space is
\* absent or False and the space exists.  (Stated for calls whose requests
\* all succeed.)
C18_PrepareSpace ==
    [][(/\ call.t = "none"
        /\ call'.t = "call"
        /\ call'.fn = "prepare_space"
        /\ call'.fault.at = "none")
       => LET space_name == call'.A.space_name
              must == call'.A.space_must_exist
              existed == SpaceExists(spaces, space_name)
          IN IF must.t = "none" \/ must.v[1] = existed
             THEN /\ returned'.t = "str"
                  /\ \E i \in 1..Len(spaces') :
                        spaces'[i] = space_name /\ returned'.v = IntToStr(i)
                  /\ spaces' = IF existed THEN spaces ELSE Append(spaces, space_name)
             ELSE /\ returned'.t = "none"
                  /\ spaces' = spaces]_vars

\* C19: start_extractor returns True only if the extraction request was sent
\* after the dataset and the extractor name were found, the space was
\* prepared and experiment.yaml and the extractor's configuration file were
\* uploaded; in every other case, an exception included, it returns False
\* and raises nothing.
C19_StartExtractor ==
    [][(/\ call.t = "none"
        /\ call'.t = "call"
        /\ call'.fn = "start_extractor")
       => /\ returned'.t = "bool"
          /\ returned'.v[1] =>
                /\ extractions' = extractions + 1
                /\ call'.A.dataset = dataset_1
                /\ Find(s_terra_odm, call'.A.extractor) >= 0
                /\ SpaceExists(spaces', call'.A.space_name)
                /\ \E i \in 1..Len(files') : files'[i] = s_experiment_yaml
                /\ \E i \in 1..Len(files') :
                      files'[i] = s_extractor_ \o call'.A.extractor \o s_dot_txt]_vars

\* C21: with no column hint, a column taken by the rule for plot-like names
\* has a name that contains "plot" and also "name" or "id"; a column whose
\* name contains "plot" but neither (plot_area) is never taken by that rule.
C21_PlotLikeColumn ==
    (/\ InLoop /\ HasTable /\ config_hint.t = "none"
     /\ plot_name_idx.t = "str"
     /\ Contains(plot_name_idx.v, s_plot))
    => \/ Contains(plot_name_idx.v, s_name)
       \/ Contains(plot_name_idx.v, s_id)

\* the first file of the file list that has an entry in the image catalog
FirstImageFound ==
    find_needed_files(extractor, resource.local_paths, resource.triggering_file).imagefiles[1]

\* C22: when more than one georeferenced image is found, canopy cover keeps
\* exactly one catalog entry, the one of the first image found in file list
\* order, so that a file list always gives the same image.
C22_FirstFoundKept ==
    (extractor = "canopycover" /\ pc \notin {"start", "skipped"}) =>
        /\ Len(imagefiles) = 1
        /\ imagefiles[1].filename = FirstImageFound.filename

\* C23: in every data row of the geostreams file the value under lat is the
\* Y of the plot's centroid and the value under lon its X, site is the plot
\* name and value the canopy cover value of the pair.
C23_GeoRowFields ==
    (extractor = "canopycover" /\ pc \notin {"start", "skipped", "load"}) =>
        /\ Len(DataRows(geo_file)) = Len(ScoredClips)
        /\ \A i \in 1..Len(DataRows(geo_file)) :
              LET row == DataRows(geo_file)[i].cols
                  ring == layer[ScoredClips[i].feature].poly
                  pix == ScoredClips[i].pix
              IN /\ row[1] = plot_names[ScoredClips[i].feature]
                 /\ row[3] = Lo(ring, 2) + Hi(ring, 2)
                 /\ row[4] = Lo(ring, 1) + Hi(ring, 1)
                 /\ row[7] = (pix.nonzero * 10000) \div pix.size

\* C25: when process_message of either extractor has returned, on the two
\* early skips as at its end, self.sensors.base has the value it had before
\* the call, and the start_message of the call was followed by an end_message.
C25_BaseRestored ==
    pc \in {"skipped", "done"} =>
        /\ sensors_base = sensor_old_base
        /\ messages = <<"start_message", "end_message">>

\* the name of a file without its directory and without its extension
BaseName(path) == SplitextRoot(Basename(path))

\* C26: when find_needed_files returns a shapefile and a DBF file, the DBF
\* file has the base name of the shapefile, whatever the file list and the
\* triggering file (None included).
C26_DbfMatchesShapefile ==
    (pc = "found" /\ shapefile.t = "str" /\ dbffile.t = "str") =>
        BaseName(dbffile.v) = BaseName(shapefile.v)

\* the file list in another order
Reordered(paths, o) == [i \in 1..Len(paths) |-> paths[o[i]]]

\* C28: the shapefile and the DBF file find_needed_files returns are the same
\* for every order of the file list; a DBF file listed before its shapefile
\* is returned as it is when listed after it.
C28_OrderIndependent ==
    pc = "found" =>
        \A o \in DictOrders(resource.local_paths) :
            LET r == find_needed_files(extractor, Reordered(resource.local_paths, o),
                                       resource.triggering_file)
            IN r.shapefile = shapefile /\ r.dbffile = dbffile

\* C27: at every point of the canopy cover run the two CSV files hold as many
\* data rows, for the same pairs in the same order: no pair has a row in one
\* file and none in the other, whatever step of the block of the pair fails.
C27_RowsInStep ==
    extractor = "canopycover" =>
        /\ Len(DataRows(geo_file)) = Len(DataRows(csv_file))
        /\ \A i \in 1..Len(DataRows(geo_file)) :
              /\ DataRows(geo_file)[i].cols[1] = DataRows(csv_file)[i].cols[5]
              /\ DataRows(geo_file)[i].cols[7] = DataRows(csv_file)[i].cols[2]

\* the upload queue holds an entry for the file
Queued(file_name) ==
    \E i \in 1..Len(files_to_upload) : files_to_upload[i].dest_name = file_name

\* C24: when the thumbnail, the 10% and the full-size TIFF exist, overwrite
\* is off and the PNG is missing, process_message does not run the stitch
\* again, makes the 10% PNG thumbnail and queues it for upload.
C24_OnlyPngMade ==
    (odm_pc = "done" /\ only_png) =>
        /\ ~stitched
        /\ Queued(out_png)

\* C29: wait_for_started ends with success only if the log showed "Waiting
\* for messages." within the polls; when the loop on the log is used up
\* without that text the script ends with an error, as wait_for_finish does.
C29_StartedOrError ==
    (wait_script = "wait_for_started" /\ exit_status = "0") => s_waiting \in wait_res

\* C30: the dictionary of prepare_experiment read back with
\* pipeline_get_season_experiment_timestamp gives the season, the study name
\* and the timestamp it was built from, none of them None.
C30_RoundTrip ==
    read_back # << >> =>
        /\ read_back[1] = study_args[2]
        /\ read_back[2] = study_args[1]
        /\ read_back[3] = study_args[3]

=============================================================================
